---- MODULE Spec2Model ----
(***************************************************************************)
(* VizinhoAlert: the PostgreSQL schema (tables, defaults, foreign keys,    *)
(* triggers and plpgsql functions of migrations/001_initial_schema.sql,    *)
(* kept in src/tailwind.config.js lines 204-764) as a state machine.       *)
(*                                                                         *)
(* Time is an integer count of ticks; a minute holds TicksPerMinute ticks, *)
(* so that date_trunc('minute', ...) is a real truncation.                 *)
(***************************************************************************)
EXTENDS Integers, Sequences, FiniteSets, TLC

\* ------------------------------------------------------------------ bounds
TicksPerMinute == 2
MaxAdvances == 2
MaxCalls == 3
MaxOps == 5
MaxDevices == 2
MaxVehicles == 2
MaxAlerts == 2
MaxPushTokens == 1
\* requests the backend receives from the app
MaxWire == 5
MaxInFlight == 2

\* ------------------------------------------------------------------- time
Minute == TicksPerMinute
Hour == 60 * Minute
Day == 24 * Hour

\* rate_limits.expires_at DEFAULT (CURRENT_TIMESTAMP + INTERVAL '1 hour')
RateLimitTTL == 1 * Hour

\* alerts.expires_at DEFAULT (CURRENT_TIMESTAMP + INTERVAL '30 days')
AlertTTL == 30 * Day
\* devices.delete_after DEFAULT (CURRENT_TIMESTAMP + INTERVAL '90 days')
DeviceRetention == 90 * Day
\* abuse_metrics.expires_at DEFAULT (CURRENT_TIMESTAMP + INTERVAL '7 days')
AbuseMetricTTL == 7 * Day
\* ban_expires_at = CURRENT_TIMESTAMP + INTERVAL '7 days'
BanDuration == 7 * Day
\* devices.trust_score DEFAULT 100 CHECK (trust_score >= 0 AND trust_score <= 100)
TrustDefault == 100
TrustMin == 0
TrustMax == 100
\* IF new_score < 10
BanThreshold == 10
\* Alert Creation | 10/hour per device
AlertsPerHour == 10
AlertWindowMinutes == 60
\* idx_push_tokens_failures ... WHERE failure_count > 3
PushFailureLimit == 3

\* date_trunc('minute', t), date_trunc('hour', t)
date_trunc_minute(t) == t - (t % Minute)
date_trunc_hour(t) == t - (t % Hour)

\* SQL NULL, and a value in a nullable column
Null == {}
Some(x) == {x}

\* CREATE TYPE alert_type AS ENUM (...)
AlertTypeEnum == {"lights_on", "window_open", "alarm_triggered", "parking_issue",
                  "damage_spotted", "towing_risk", "obstruction", "general"}
\* CREATE TYPE alert_status AS ENUM (...)
AlertStatusEnum == {"active", "acknowledged", "resolved", "expired", "flagged"}

\* ------------------------------------------------------------ strings
\* A string the code computes on is the sequence of its characters.
UpperLetters ==
  <<"A", "B", "C", "D", "E", "F", "G", "H", "I", "J", "K", "L", "M", "N",
    "O", "P", "Q", "R", "S", "T", "U", "V", "W", "X", "Y", "Z">>

LowerLetters ==
  <<"a", "b", "c", "d", "e", "f", "g", "h", "i", "j", "k", "l", "m", "n",
    "o", "p", "q", "r", "s", "t", "u", "v", "w", "x", "y", "z">>

WhiteSpace == {" ", "\t", "\n"}

InSeq(seq, c) == \E i \in 1..Len(seq) : seq[i] = c

IndexOf(seq, c) == CHOOSE i \in 1..Len(seq) : seq[i] = c

\* String.prototype.toUpperCase, toLowerCase on ASCII
toUpperCase(s) ==
    [i \in 1..Len(s) |-> IF InSeq(LowerLetters, s[i])
                         THEN UpperLetters[IndexOf(LowerLetters, s[i])]
                         ELSE s[i]]

toLowerCase(s) ==
    [i \in 1..Len(s) |-> IF InSeq(UpperLetters, s[i])
                         THEN LowerLetters[IndexOf(UpperLetters, s[i])]
                         ELSE s[i]]

\* String.prototype.trim: without the leading and trailing white space
trim(s) ==
    LET keep == {i \in 1..Len(s) : s[i] \notin WhiteSpace}
    IN IF keep = {} THEN <<>>
       ELSE SubSeq(s, CHOOSE i \in keep : \A j \in keep : i <= j,
                      CHOOSE i \in keep : \A j \in keep : i >= j)

\* ------------------------------------------------------------ alert types
\* The characters of each value of the alert_type enum.
Spell ==
    ("lights_on" :> <<"l", "i", "g", "h", "t", "s", "_", "o", "n">>) @@
    ("window_open" :> <<"w", "i", "n", "d", "o", "w", "_", "o", "p", "e", "n">>) @@
    ("alarm_triggered" :> <<"a", "l", "a", "r", "m", "_", "t", "r", "i", "g", "g", "e", "r", "e", "d">>) @@
    ("parking_issue" :> <<"p", "a", "r", "k", "i", "n", "g", "_", "i", "s", "s", "u", "e">>) @@
    ("damage_spotted" :> <<"d", "a", "m", "a", "g", "e", "_", "s", "p", "o", "t", "t", "e", "d">>) @@
    ("towing_risk" :> <<"t", "o", "w", "i", "n", "g", "_", "r", "i", "s", "k">>) @@
    ("obstruction" :> <<"o", "b", "s", "t", "r", "u", "c", "t", "i", "o", "n">>) @@
    ("general" :> <<"g", "e", "n", "e", "r", "a", "l">>)

\* ALERT_TYPES: the canonical list, lowercase
ALERT_TYPES == {Spell[t] : t \in AlertTypeEnum}

\* ALERT_TYPE_MAP: each canonical value and its UPPERCASE form, to the
\* canonical value
ALERT_TYPE_MAP ==
    [k \in ALERT_TYPES \cup {toUpperCase(t) : t \in ALERT_TYPES} |-> toLowerCase(k)]

\* ALERT_TYPE_MAP is an object literal: `key in ALERT_TYPE_MAP` is also true
\* of the properties it inherits from Object.prototype, and the value read
\* under such a key is that property, no alert type.
ObjectPrototypeKeys ==
    { <<"c", "o", "n", "s", "t", "r", "u", "c", "t", "o", "r">>,
      <<"t", "o", "S", "t", "r", "i", "n", "g">>,
      <<"v", "a", "l", "u", "e", "O", "f">> }

InheritedProperty(key) == <<"Object.prototype.">> \o key

\* normalizeAlertType(input): the value sent as alert_type
normalizeAlertType(input) ==
    LET trimmed == trim(input)
        lower == toLowerCase(trimmed)
    IN IF trimmed \in DOMAIN ALERT_TYPE_MAP THEN ALERT_TYPE_MAP[trimmed]
       ELSE IF trimmed \in ObjectPrototypeKeys THEN InheritedProperty(trimmed)
       ELSE IF lower \in ALERT_TYPES THEN lower
       ELSE Spell["general"]

\* The enum value a string of the request body is read as; "free_text"
\* stands for every string that spells none of them.
AlertTypeOfBody(body) ==
    IF \E t \in AlertTypeEnum : Spell[t] = body
    THEN CHOOSE t \in AlertTypeEnum : Spell[t] = body
    ELSE "free_text"

\* ------------------------------------------------------------ licence plates
DigitChars == {"0", "1", "2", "3", "4", "5", "6", "7", "8", "9"}

UpperChars == {UpperLetters[i] : i \in 1..Len(UpperLetters)}

\* One piece of a pattern: a character class repeated min to max times.
Letter(min, max) == [class |-> UpperChars, min |-> min, max |-> max]

Digit(min, max) == [class |-> DigitChars, min |-> min, max |-> max]

LetterOrDigit(min, max) == [class |-> UpperChars \cup DigitChars, min |-> min, max |-> max]

Rule(countryCode, pattern) == [countryCode |-> countryCode, pattern |-> pattern]

\* PLATE_RULES, in the order of the source; each pattern is anchored at both
\* ends.
PLATE_RULES ==
    <<Rule("GB", <<Letter(2, 2), Digit(2, 2), Letter(3, 3)>>),
      Rule("GB", <<Letter(1, 1), Digit(1, 3), Letter(3, 3)>>),
      Rule("GB", <<Letter(3, 3), Digit(1, 3), Letter(1, 1)>>),
      Rule("IE", <<Digit(2, 3), Letter(1, 2), Digit(1, 6)>>),
      Rule("PT", <<Letter(2, 2), Digit(2, 2), Letter(2, 2)>>),
      Rule("PT", <<Digit(2, 2), Letter(2, 2), Digit(2, 2)>>),
      Rule("ES", <<Digit(4, 4), Letter(3, 3)>>),
      Rule("FR", <<Letter(2, 2), Digit(3, 3), Letter(2, 2)>>),
      Rule("DE", <<Letter(1, 3), Letter(1, 2), Digit(1, 4)>>),
      Rule("DE", <<Letter(1, 3), Digit(1, 4)>>),
      Rule("IT", <<Letter(2, 2), Digit(3, 3), Letter(2, 2)>>),
      Rule("NL", <<Letter(2, 2), Digit(2, 2), Letter(2, 2)>>),
      Rule("NL", <<Digit(2, 2), Letter(3, 3), Digit(1, 1)>>),
      Rule("NL", <<Digit(1, 1), Letter(3, 3), Digit(2, 2)>>),
      Rule("BE", <<Digit(1, 1), Letter(3, 3), Digit(3, 3)>>),
      Rule("BE", <<Letter(3, 3), Digit(3, 3)>>),
      Rule("CH", <<Letter(2, 2), Digit(1, 6)>>),
      Rule("AT", <<Letter(1, 2), Digit(1, 5), Letter(1, 2)>>),
      Rule("SE", <<Letter(3, 3), Digit(2, 2), LetterOrDigit(1, 1)>>),
      Rule("NO", <<Letter(2, 2), Digit(5, 5)>>),
      Rule("DK", <<Letter(2, 2), Digit(5, 5)>>),
      Rule("PL", <<Letter(2, 3), LetterOrDigit(4, 5)>>)>>

\* RegExp.prototype.test for an anchored sequence of pieces: s from position
\* i on is matched by the pieces from k on.
RECURSIVE TestFrom(_, _, _, _)
TestFrom(s, i, pattern, k) ==
    IF k > Len(pattern) THEN i = Len(s) + 1
    ELSE \E n \in pattern[k].min..pattern[k].max :
            /\ i + n - 1 <= Len(s)
            /\ \A j \in i..(i + n - 1) : s[j] \in pattern[k].class
            /\ TestFrom(s, i + n, pattern, k + 1)

Test(pattern, s) == TestFrom(s, 1, pattern, 1)

\* normalized.replace(/[\s\-\.\_]/g, "")
RemovedChars == WhiteSpace \cup {"-", ".", "_"}

\* normalizeLicensePlate without the replace: uppercase and trimmed only
normalizeLicensePlate_TrimOnly(plate) ==
    IF plate = <<>> THEN <<>> ELSE trim(toUpperCase(plate))

\* normalizeLicensePlate(plate): uppercase, trimmed, without spaces, dashes,
\* dots and underscores
normalizeLicensePlate(plate) ==
    IF plate = <<>> THEN <<>>
    ELSE SelectSeq(trim(toUpperCase(plate)), LAMBDA c : c \notin RemovedChars)

\* detectPlateCountry(plate): the country of the first rule whose pattern the
\* normalized plate matches, Null when none does
detectPlateCountry(plate) ==
    LET normalized == normalizeLicensePlate(plate)
        hits == {r \in 1..Len(PLATE_RULES) : Test(PLATE_RULES[r].pattern, normalized)}
    IN IF hits = {} THEN Null
       ELSE Some(PLATE_RULES[CHOOSE r \in hits : \A q \in hits : r <= q].countryCode)

\* validateLicensePlate without the test of the length
validateLicensePlate_NoLengthCheck(plate) ==
    LET normalized == normalizeLicensePlate(plate)
        match == detectPlateCountry(normalized)
    IN IF match # Null
       THEN [isValid |-> TRUE, matchedCountry |-> match, normalized |-> normalized]
       ELSE [isValid |-> FALSE, matchedCountry |-> Null, normalized |-> normalized]

\* validateLicensePlate(plate)
validateLicensePlate(plate) ==
    LET normalized == normalizeLicensePlate(plate)
        match == detectPlateCountry(normalized)
    IN IF normalized = <<>>
       THEN [isValid |-> FALSE, matchedCountry |-> Null, normalized |-> normalized]
       ELSE IF Len(normalized) < 4 \/ Len(normalized) > 10
       THEN [isValid |-> FALSE, matchedCountry |-> Null, normalized |-> normalized]
       ELSE IF match # Null
       THEN [isValid |-> TRUE, matchedCountry |-> match, normalized |-> normalized]
       ELSE [isValid |-> FALSE, matchedCountry |-> Null, normalized |-> normalized]

\* const { isValid } = validateLicensePlate(plate); return isValid
isValidLicensePlate(plate) == validateLicensePlate(plate).isValid

\* getLicensePlateError that answers null for every plate of 4 to 10 characters
getLicensePlateError_LengthOnly(plate) ==
    LET normalized == normalizeLicensePlate(plate)
    IN IF normalized = <<>> THEN Some("Please enter a license plate")
       ELSE IF Len(normalized) < 4 THEN Some("License plate is too short")
       ELSE IF Len(normalized) > 10 THEN Some("License plate is too long")
       ELSE Null

\* the message for an invalid plate, null for a valid one
getLicensePlateError(plate) ==
    LET normalized == normalizeLicensePlate(plate)
    IN IF normalized = <<>> THEN Some("Please enter a license plate")
       ELSE IF Len(normalized) < 4 THEN Some("License plate is too short")
       ELSE IF Len(normalized) > 10 THEN Some("License plate is too long")
       ELSE IF ~validateLicensePlate(plate).isValid
       THEN Some("Enter a valid UK or European license plate")
       ELSE Null

\* ------------------------------------------------------------ QR payloads
\* [a-zA-Z0-9_-]
TokenChars ==
    UpperChars \cup {LowerLetters[i] : i \in 1..Len(LowerLetters)} \cup DigitChars
        \cup {"_", "-"}

VehiclePath == <<"/", "v", "e", "h", "i", "c", "l", "e", "/">>

\* data.match(/\/vehicle\/([a-zA-Z0-9_-]+)$/): the places where "/vehicle/"
\* starts and only token characters, at least one, follow to the end
VehicleMatch(data) ==
    {k \in 1..Len(data) :
        /\ k + Len(VehiclePath) <= Len(data)
        /\ SubSeq(data, k, k + Len(VehiclePath) - 1) = VehiclePath
        /\ \A i \in (k + Len(VehiclePath))..Len(data) : data[i] \in TokenChars}

\* extractQrToken that takes every string without "/" for a raw token
extractQrToken_AnyRaw(data) ==
    IF VehicleMatch(data) # {}
    THEN Some(SubSeq(data, (CHOOSE k \in VehicleMatch(data) : TRUE) + Len(VehiclePath),
                     Len(data)))
    ELSE IF ~InSeq(data, "/") THEN Some(data)
    ELSE Null

\* extractQrToken(data): the token of the payload, Null when it has none
extractQrToken(data) ==
    IF VehicleMatch(data) # {}
    THEN Some(SubSeq(data, (CHOOSE k \in VehicleMatch(data) :
                               \A q \in VehicleMatch(data) : k <= q) + Len(VehiclePath),
                     Len(data)))
    ELSE IF Len(data) >= 20 /\ ~InSeq(data, "/") THEN Some(data)
    ELSE Null

\* ------------------------------------------------------------ input sets
\* The (identifier_hash, identifier_type, action) triples callers send:
\* CHECK (identifier_type IN ('device', 'ip')), CHECK (action IN (...)).
\* Each differs from the first in one column.
Requests == {<<"h1", "device", "alert_create">>,
             <<"h1", "ip", "alert_create">>,
             <<"h2", "device", "alert_create">>,
             <<"h1", "device", "vehicle_register">>}
MaxRequestsSet == {1, 2}
WindowMinutesSet == {1}
Procs == {"p1", "p2"}
\* Clock steps: within a minute, to the next minutes, past the rows' TTL.
RLSteps == {1, Minute, Hour}
RaceSteps == {1, Minute}
TrustSteps == {1, BanDuration}
ReaperSteps == {1, AlertTTL}
CascadeSteps == {1, DeviceRetention}
DeviceIds == 1..MaxDevices
DeviceHashes == {"h1", "h2"}
\* registerVehicle's rawPlate: "ab-12 cde" (a GB plate), "1234ABC" (an ES
\* plate) and "AB" (too short)
PlateInputs ==
    { <<"a", "b", "-", "1", "2", " ", "c", "d", "e">>,
      <<"1", "2", "3", "4", "A", "B", "C">>,
      <<"A", "B">> }

\* identifiers the client generates for itself (getOrCreateDeviceId)
ClientDeviceIdInputs == {"a1b2", "c3d4"}

\* the same with "Ab.12_cDe", the first plate in another raw formatting
PlateVariantInputs ==
    PlateInputs \cup { <<"A", "b", ".", "1", "2", "_", "c", "D", "e">> }

\* validateLicensePlate of each plate in use
PlateCheck == [plate \in PlateVariantInputs |-> validateLicensePlate(plate)]
\* the `example` of each rule of PLATE_RULES, in the order of the rules
PlateExamples ==
    { <<"A", "B", "1", "2", "C", "D", "E">>,
      <<"A", "1", "2", "3", "B", "C", "D">>,
      <<"A", "B", "C", "1", "2", "3", "D">>,
      <<"1", "2", "D", "1", "2", "3", "4", "5">>,
      <<"A", "A", "1", "2", "B", "B">>,
      <<"1", "2", "A", "A", "3", "4">>,
      <<"1", "2", "3", "4", "A", "B", "C">>,
      <<"A", "A", "1", "2", "3", "A", "A">>,
      <<"B", "A", "B", "1", "2", "3", "4">>,
      <<"B", "1", "2", "3", "4">>,
      <<"A", "B", "1", "2", "3", "C", "D">>,
      <<"A", "B", "1", "2", "C", "D">>,
      <<"1", "2", "A", "B", "C", "3">>,
      <<"1", "A", "B", "C", "2", "3">>,
      <<"1", "A", "B", "C", "1", "2", "3">>,
      <<"A", "B", "C", "1", "2", "3">>,
      <<"Z", "H", "1", "2", "3", "4", "5", "6">>,
      <<"W", "1", "2", "3", "4", "5", "A">>,
      <<"A", "B", "C", "1", "2", "D">>,
      <<"A", "B", "1", "2", "3", "4", "5">>,
      <<"W", "A", "1", "2", "3", "4", "5">> }

\* plates at the edges: shorter than 4 or longer than 10 characters, with
\* and without a rule that matches them, and plates of no country
PlateEdgeCases ==
    { <<"B", "1">>,
      <<"A", "B", "1">>,
      <<"A", "1", "B">>,
      <<"A">>,
      <<"1", "2", "D", "1">>,
      <<"A", "B", "1", "2", "3">>,
      <<"1", "2", "3", "A", "B", "1", "2", "3", "4", "5", "6">>,
      <<"A", "B", "C", "D", "E", "F", "G", "H", "I", "J", "K">>,
      <<"W", "A", "B", "1", "2", "3", "4", "5", "6", "7", "8">>,
      <<"1", "2", "3", "4", "5", "6", "7">>,
      <<"A", "B", "C", "D", "E", "F", "G">>,
      << >> }

\* plates as typed: lower and mixed case, spaces, dashes, dots, underscores,
\* white space around
PlateRawForms ==
    { <<"a", "b", "-", "1", "2", " ", "c", "d", "e">>,
      <<"A", "b", ".", "1", "2", "_", "c", "D", "e">>,
      <<" ", "a", "b", "1", "2", "c", "d", "e", " ">>,
      <<"\t", "A", "B", "1", "2", "C", "D", "E", "\n">>,
      <<"a", "a", " ", "1", "2", " ", "b", "b">>,
      <<"z", "h", "-", "1", "2", "3", "4", "5", "6">>,
      <<"b", " ", "1", "2", "3", "4">>,
      <<"a", "b", "c", ".", "1", "2", "3">>,
      <<"w", "_", "1", "2", "3", "4", "5", "_", "a">>,
      <<"1", "2", "-", "d", "-", "1", "2", "3", "4", "5">>,
      <<"a", " ", "b">>,
      <<"-", "-", " ", "-", "-">>,
      <<"b", "-", "1">>,
      <<"1", "2", "3", "4", " ", "a", "b", "c">>,
      <<"A", "b", " ", "1">> }

PlateEdgeInputs == PlateExamples \cup PlateEdgeCases \cup PlateRawForms

\* what a camera reads from a QR code: URLs that end in /vehicle/{token}, URLs
\* that do not (another path, a trailing "/", a query, a "." in the segment)
QrUrlInputs ==
    { <<"h", "t", "t", "p", "s", ":", "/", "/", "v", "i", "z", "i", "n", "h", "o", "a", "l", "e", "r", "t", ".", "e", "u", "/", "v", "e", "h", "i", "c", "l", "e", "/", "a", "B", "3", "_", "-", "x">>,
      <<"h", "t", "t", "p", ":", "/", "/", "x", "/", "v", "e", "h", "i", "c", "l", "e", "/", "t">>,
      <<"/", "v", "e", "h", "i", "c", "l", "e", "/", "a", "b", "c">>,
      <<"v", "e", "h", "i", "c", "l", "e", "/", "a", "b", "c">>,
      <<"h", "t", "t", "p", "s", ":", "/", "/", "v", ".", "e", "u", "/", "v", "e", "h", "i", "c", "l", "e", "/">>,
      <<"h", "t", "t", "p", "s", ":", "/", "/", "v", ".", "e", "u", "/", "v", "e", "h", "i", "c", "l", "e", "/", "a", "b", "c", "/">>,
      <<"h", "t", "t", "p", "s", ":", "/", "/", "v", ".", "e", "u", "/", "v", "e", "h", "i", "c", "l", "e", "/", "a", "b", ".", "c">>,
      <<"h", "t", "t", "p", "s", ":", "/", "/", "v", ".", "e", "u", "/", "v", "e", "h", "i", "c", "l", "e", "/", "a", "b", "c", "?", "x", "=", "1">>,
      <<"h", "t", "t", "p", "s", ":", "/", "/", "v", ".", "e", "u", "/", "v", "e", "h", "i", "c", "l", "e", "s", "/", "a", "b", "c">>,
      <<"h", "t", "t", "p", "s", ":", "/", "/", "v", ".", "e", "u", "/", "v", "e", "h", "i", "c", "l", "e", "/", "a", "b", "c", "/", "d", "e", "f">>,
      <<"h", "t", "t", "p", "s", ":", "/", "/", "v", ".", "e", "u", "/", "c", "a", "r", "/", "a", "b", "c">>,
      <<"h", "t", "t", "p", "s", ":", "/", "/", "v", ".", "e", "u", "/", "v", "e", "h", "i", "c", "l", "e", "/", "a", " ", "b">>,
      <<"h", "t", "t", "p", "s", ":", "/", "/", "v", ".", "e", "u", "/", "v", "e", "h", "i", "c", "l", "e", "/", "v", "e", "h", "i", "c", "l", "e", "/", "a", "b", "c">>,
      <<"h", "t", "t", "p", "s", ":", "/", "/", "v", ".", "e", "u", "/", "V", "e", "h", "i", "c", "l", "e", "/", "a", "b", "c">>,
      <<"h", "t", "t", "p", "s", ":", "/", "/", "v", ".", "e", "u", "/", "v", "e", "h", "i", "c", "l", "e", "/", "a", "b", "c", "d", "e", "f", "g", "h", "i", "j", "k", "l", "m", "n", "o", "p", "q", "r", "s", "t", "u">>,
      <<"h", "t", "t", "p", "s", ":", "/", "/", "e", "x", "a", "m", "p", "l", "e", ".", "c", "o", "m", "/", "a", "b", "c", "d", "e", "f", "g", "h", "i", "j", "k", "l", "m", "n", "o", "p">> }

\* strings without a URL: shorter than 20 characters, 20 and more, with "/"
QrRawInputs ==
    { << >>,
      <<"a", "b", "c">>,
      <<"a", "b", "c", "d", "e", "f", "g", "h", "i", "j", "k", "l", "m", "n", "o", "p", "q", "r", "s">>,
      <<"a", "b", "c", "d", "e", "f", "g", "h", "i", "j", "k", "l", "m", "n", "o", "p", "q", "r", "s", "t">>,
      <<"a", "b", "c", "d", "e", "f", "g", "h", "i", "j", "k", "l", "m", "n", "o", "p", "q", "r", "s", "t", "u">>,
      <<"a", "b", "c", "d", "e", "f", "g", "h", "i", "j", "/", "k", "l", "m", "n", "o", "p", "q", "r", "s", "t">>,
      <<"h", "e", "l", "l", "o", " ", "w", "o", "r", "l", "d", ",", " ", "t", "h", "i", "s", " ", "i", "s", " ", "t", "e", "x", "t">>,
      <<"a", ".", "b", ".", "c", ".", "d", ".", "e", ".", "f", ".", "g", ".", "h", ".", "i", ".", "j", ".", "k">>,
      <<"A", "B", "C", "D", "E", "F", "G", "H", "I", "J", "_", "0", "1", "2", "3", "4", "5", "6", "7", "8", "9", "-">>,
      <<"a", "b", "c", "d", "e", "f", "g", "h", "i", "j", "k", "l", "m", "n", "o", "p", "q", "r", "s", "t", "/">>,
      <<"0", "1", "2", "3", "4", "5", "6", "7", "8", "9">>,
      <<"W", "I", "F", "I", ":", "S", ":", "h", "o", "m", "e", ";", "T", ":", "W", "P", "A", ";", "P", ":", "s", "e", "c", "r", "e", "t", ";", ";">> }

\* tokens of 1 to 24 characters, raw and at the end of the URL
QrLengthInputs ==
    {[i \in 1..n |-> "a"] : n \in 1..24}
        \cup {<<"h", "/", "v", "e", "h", "i", "c", "l", "e", "/">> \o [i \in 1..n |-> "a"] :
                 n \in {1, 19, 20}}

QrPayloadInputs == QrUrlInputs \cup QrRawInputs \cup QrLengthInputs

\* createAlert's inputs: a QR token (0: one no vehicle has), an alert type,
\* a (latitude, longitude) pair
QrTokenInputs == 0..MaxVehicles
AlertTypeInputs == {"lights_on", "free_text"}

\* record_abuse_metric's p_metric_type: two of the six
MetricTypeInputs == {"alert_sent", "qr_scan"}

MetricSteps == {1, Hour}

\* the alertType a caller of the client's createAlert passes: an UPPERCASE
\* value, a mixed-case one with white space, and one that spells no alert type
ClientAlertTypeInputs ==
    { <<"G", "E", "N", "E", "R", "A", "L">>,
      <<" ", "L", "i", "g", "h", "t", "s", "_", "O", "n", " ">>,
      <<"F", "I", "R", "E">> }

ClientSteps == {Hour}

\* every way to write a string in upper and lower case letters
RECURSIVE CaseVariants(_)
CaseVariants(s) ==
    IF s = << >> THEN { << >> }
    ELSE {<<c>> \o rest : c \in {toLowerCase(<<Head(s)>>)[1], toUpperCase(<<Head(s)>>)[1]},
                          rest \in CaseVariants(Tail(s))}

\* normalizeAlertType's input: "general" and "fire" in every casing, a value
\* between white space, the empty string, and names of Object.prototype
AlertTypeEdgeInputs ==
    CaseVariants(Spell["general"])
        \cup CaseVariants(<<"f", "i", "r", "e">>)
        \cup {<<" ">> \o toUpperCase(Spell[t]) \o <<"\n">> : t \in AlertTypeEnum}
        \cup {<<"T", "o", "w", "i", "n", "g", "_", "R", "i", "s", "k">>, << >>}
        \cup ObjectPrototypeKeys
CoordinateInputs == {<<51, 0>>, <<91, 0>>}
PushTokenInputs == {"ExponentPushToken[a]"}
\* update_trust_score's p_adjustment
TrustDeltas == {-95, -90, 95}

VARIABLES
    now,                \* CURRENT_TIMESTAMP of the next transaction, in ticks
    advances,           \* how often the clock moved (bounded by MaxAdvances)
    variable_conflict,  \* plpgsql.variable_conflict of the deployment
    limit,              \* the (p_max_requests, p_window_minutes) the callers pass
    rate_limits,        \* TABLE rate_limits: a set of rows
    calls,              \* per connection: the check_rate_limit call in flight
    rl_log,             \* history: the check_rate_limit calls that returned
    devices,            \* TABLE devices: id -> row
    vehicles,           \* TABLE vehicles: id -> row
    alerts,             \* TABLE alerts: id -> row
    push_tokens,        \* TABLE push_tokens: id -> row
    abuse_metrics,      \* TABLE abuse_metrics: a set of rows
    next_id,            \* uuid_generate_v4(): the next unused id of each table
    push_pending,       \* committed alerts whose push delivery is still to come
    ops,                \* how many handler calls and sweeps committed (bounded by MaxOps)
    result,             \* what the last operation returned to its caller
    storage,            \* the app's AsyncStorage: key -> Null or Some(value)
    tasks,              \* the app's async calls in flight: where each stands
    wire,               \* the requests the backend received from the app, in order
    entropy             \* how many identifiers Crypto.getRandomBytesAsync has drawn

clock == <<now, advances>>
app == <<storage, tasks, wire, entropy>>
\* what no step of the backend changes: the deployment's settings and the
\* state of the app
config == <<variable_conflict, limit, app>>
rlvars == <<calls, rl_log>>
dbvars == <<devices, vehicles, alerts, push_tokens, abuse_metrics, next_id,
            push_pending, ops, result>>
vars == <<now, advances, variable_conflict, limit, rate_limits, calls, rl_log,
          devices, vehicles, alerts, push_tokens, abuse_metrics, next_id,
          push_pending, ops, result, storage, tasks, wire, entropy>>

\* ------------------------------------------------------------------ the app
\* lib/api.ts, lib/pushNotifications.ts: async functions on one JavaScript
\* thread. A call runs until its next await; there another call may run. Each
\* action below is one call going from one await to the next.

\* AsyncStorage of a fresh install
StorageEmpty ==
    [device_id |-> Null, jwt_token |-> Null, device_uuid |-> Null,
     push_token_registered |-> Null]

\* AsyncStorage of an install that registered before (identifier 0, token 0)
StorageRegistered ==
    [device_id |-> Some(0), jwt_token |-> Some(0), device_uuid |-> Some(0),
     push_token_registered |-> Null]

\* The HTTP status of a response; NetworkError: fetch rejected
NetworkError == 0
Statuses == {200, 401, NetworkError}

\* A call: the exported function that was called (op), where it stands (pc),
\* its local variables, and what it has done so far.
TaskIdle ==
    [pc |-> "idle", op |-> "none", stage |-> "first",
     token |-> Null, deviceId |-> Null, refused |-> Null,
     sent |-> 0, registrations |-> 0, reregistrations |-> 0, removed |-> FALSE,
     status |-> NetworkError, thrown |-> FALSE, returned |-> Null]

AppOps == {"getOrCreateDeviceId", "ensureAuthenticated", "authFetch",
           "setupPushNotifications"}

\* the first await of each function
FirstPc(op) ==
    CASE op = "getOrCreateDeviceId" -> "get_device_id"
      [] op = "ensureAuthenticated" -> "get_jwt"
      [] op = "authFetch" -> "get_jwt"
      [] op = "setupPushNotifications" -> "check_flag"

\* the endpoint a call's authFetch goes to
Endpoint(op) == IF op = "setupPushNotifications" THEN "/push/token" ELSE "/alerts"

Return(t, value) == [t EXCEPT !.pc = "done", !.returned = value]

\* an exception leaves the function; setupPushNotifications catches it
Throw(t) ==
    IF t.op = "setupPushNotifications" THEN [t EXCEPT !.pc = "done"]
    ELSE [t EXCEPT !.pc = "done", !.thrown = TRUE]

\* authFetch returns the response to its caller: registerPushToken throws
\* unless response.ok
AfterResponse(t, status) ==
    IF t.op = "authFetch" THEN Return([t EXCEPT !.status = status], Some(status))
    ELSE IF status = 200 THEN [t EXCEPT !.status = status, !.pc = "set_flag"]
    ELSE Throw([t EXCEPT !.status = status])

\* ensureAuthenticated returns the token
AfterToken(t, token) ==
    IF t.op = "ensureAuthenticated" THEN Return([t EXCEPT !.token = Some(token)], Some(token))
    ELSE [t EXCEPT !.token = Some(token),
                   !.pc = IF t.stage = "first" THEN "fetch" ELSE "retry"]

\* getOrCreateDeviceId returns the identifier
AfterDeviceId(t, deviceId) ==
    IF t.op = "getOrCreateDeviceId"
    THEN Return([t EXCEPT !.deviceId = Some(deviceId)], Some(deviceId))
    ELSE [t EXCEPT !.deviceId = Some(deviceId), !.pc = "register"]

TheValue(option) == CHOOSE x \in option : TRUE

\* the access_token of the next successful registration
FreshToken == 1 + Cardinality({i \in 1..Len(wire) : wire[i].issued # Null})

\* a request sent: who sent it, where, the device_id or the bearer token it
\* carried, the access_token the backend issued for it, and whether the
\* backend stored the push token it carried
Request(p, path, deviceId, token, issued, status) ==
    [task |-> p, path |-> path, device_id |-> deviceId, token |-> token,
     issued |-> issued, stored |-> (path = "/push/token" /\ status = 200)]

BackendUnchanged == UNCHANGED <<clock, variable_conflict, limit, rate_limits, rlvars, dbvars>>

\* A screen calls one of the exported functions.
StartCall(p, op) ==
    /\ tasks[p].pc \in {"idle", "done"}
    /\ tasks' = [tasks EXCEPT ![p] = [TaskIdle EXCEPT !.op = op, !.pc = FirstPc(op)]]
    /\ UNCHANGED <<storage, wire, entropy>>
    /\ BackendUnchanged

\* ensureAuthenticated: let token = await getJwtToken(); if (!token) ...
getJwtToken(p) ==
    /\ tasks[p].pc = "get_jwt"
    /\ tasks' = [tasks EXCEPT ![p] =
           IF storage.jwt_token # Null THEN AfterToken(@, TheValue(storage.jwt_token))
           ELSE [@ EXCEPT !.pc = "get_device_id"]]
    /\ UNCHANGED <<storage, wire, entropy>>
    /\ BackendUnchanged

\* getOrCreateDeviceId: let deviceId = await AsyncStorage.getItem(DEVICE_ID_KEY)
getOrCreateDeviceId_getItem(p) ==
    /\ tasks[p].pc = "get_device_id"
    /\ tasks' = [tasks EXCEPT ![p] =
           IF storage.device_id # Null THEN AfterDeviceId(@, TheValue(storage.device_id))
           ELSE [@ EXCEPT !.pc = "random"]]
    /\ UNCHANGED <<storage, wire, entropy>>
    /\ BackendUnchanged

\* const randomBytes = await Crypto.getRandomBytesAsync(16): 128 bits, a value
\* no earlier draw gave
getOrCreateDeviceId_getRandomBytes(p) ==
    /\ tasks[p].pc = "random"
    /\ entropy' = entropy + 1
    /\ tasks' = [tasks EXCEPT ![p] = [@ EXCEPT !.deviceId = Some(entropy + 1),
                                                !.pc = "set_device_id"]]
    /\ UNCHANGED <<storage, wire>>
    /\ BackendUnchanged

\* await AsyncStorage.setItem(DEVICE_ID_KEY, deviceId); return deviceId
getOrCreateDeviceId_setItem(p) ==
    /\ tasks[p].pc = "set_device_id"
    /\ storage' = [storage EXCEPT !.device_id = tasks[p].deviceId]
    /\ tasks' = [tasks EXCEPT ![p] = AfterDeviceId(@, TheValue(@.deviceId))]
    /\ UNCHANGED <<wire, entropy>>
    /\ BackendUnchanged

\* registerDevice: await fetch(/auth/register); not ok or rejected: throw
registerDevice_fetch(p, ok) ==
    /\ tasks[p].pc = "register"
    /\ Len(wire) < MaxWire
    /\ wire' = Append(wire, Request(p, "/auth/register", tasks[p].deviceId, Null,
                                    IF ok THEN Some(FreshToken) ELSE Null,
                                    IF ok THEN 200 ELSE NetworkError))
    /\ tasks' = [tasks EXCEPT ![p] =
           LET t == [@ EXCEPT !.registrations = @ + 1,
                              !.reregistrations =
                                  IF tasks[p].stage = "retry" THEN @ + 1 ELSE @]
           IN IF ok THEN [t EXCEPT !.token = Some(FreshToken), !.pc = "set_jwt"]
              ELSE Throw(t)]
    /\ UNCHANGED <<storage, entropy>>
    /\ BackendUnchanged

\* await AsyncStorage.setItem(JWT_TOKEN_KEY, data.access_token)
registerDevice_setJwt(p) ==
    /\ tasks[p].pc = "set_jwt"
    /\ storage' = [storage EXCEPT !.jwt_token = tasks[p].token]
    /\ tasks' = [tasks EXCEPT ![p] = [@ EXCEPT !.pc = "set_uuid"]]
    /\ UNCHANGED <<wire, entropy>>
    /\ BackendUnchanged

\* await AsyncStorage.setItem(DEVICE_UUID_KEY, data.device_uuid); return data
registerDevice_setUuid(p) ==
    /\ tasks[p].pc = "set_uuid"
    /\ storage' = [storage EXCEPT !.device_uuid = tasks[p].deviceId]
    /\ tasks' = [tasks EXCEPT ![p] = AfterToken(@, TheValue(@.token))]
    /\ UNCHANGED <<wire, entropy>>
    /\ BackendUnchanged

\* authFetch's second fetch that, refused again, starts over
authFetchRetried_Again(t, status) ==
    IF status = NetworkError THEN Throw(t)
    ELSE IF status = 401 THEN [t EXCEPT !.pc = "remove", !.refused = t.token]
    ELSE AfterResponse(t, status)

\* return fetch(...): whatever the second fetch answers is the answer
authFetchRetried(t, status) ==
    IF status = NetworkError THEN Throw(t) ELSE AfterResponse(t, status)

\* authFetch: const response = await fetch(endpoint) with the token; on 401
\* the re-registration follows, any other response is returned
authFetch_fetch(p, status) ==
    /\ tasks[p].pc = "fetch"
    /\ Len(wire) < MaxWire
    /\ wire' = Append(wire, Request(p, Endpoint(tasks[p].op), Null, tasks[p].token, Null,
                                    status))
    /\ tasks' = [tasks EXCEPT ![p] =
           LET t == [@ EXCEPT !.sent = @ + 1]
           IN IF status = NetworkError THEN Throw(t)
              ELSE IF status = 401
              THEN [t EXCEPT !.pc = "remove", !.refused = t.token, !.status = 401]
              ELSE AfterResponse(t, status)]
    /\ UNCHANGED <<storage, entropy>>
    /\ BackendUnchanged

\* await AsyncStorage.removeItem(JWT_TOKEN_KEY); then ensureAuthenticated()
authFetch_removeItem(p) ==
    /\ tasks[p].pc = "remove"
    /\ storage' = [storage EXCEPT !.jwt_token = Null]
    /\ tasks' = [tasks EXCEPT ![p] = [@ EXCEPT !.removed = TRUE, !.stage = "retry",
                                                !.pc = "get_jwt"]]
    /\ UNCHANGED <<wire, entropy>>
    /\ BackendUnchanged

\* return fetch(endpoint) with newToken
authFetch_retry(p, status) ==
    /\ tasks[p].pc = "retry"
    /\ Len(wire) < MaxWire
    /\ wire' = Append(wire, Request(p, Endpoint(tasks[p].op), Null, tasks[p].token, Null,
                                    status))
    /\ tasks' = [tasks EXCEPT ![p] = authFetchRetried([@ EXCEPT !.sent = @ + 1], status)]
    /\ UNCHANGED <<storage, entropy>>
    /\ BackendUnchanged

\* setupPushNotifications: const alreadyRegistered = await
\* isPushTokenRegistered(); then the permission and the Expo push token
\* (granted: both were given), then registerPushToken
isPushTokenRegistered(p, granted) ==
    /\ tasks[p].pc = "check_flag"
    /\ tasks' = [tasks EXCEPT ![p] =
           IF storage.push_token_registered = Some("true") \/ ~granted
           THEN Return(@, Null)
           ELSE [@ EXCEPT !.pc = "get_jwt"]]
    /\ UNCHANGED <<storage, wire, entropy>>
    /\ BackendUnchanged

\* await setPushTokenRegistered(true)
setPushTokenRegistered(p) ==
    /\ tasks[p].pc = "set_flag"
    /\ storage' = [storage EXCEPT !.push_token_registered = Some("true")]
    /\ tasks' = [tasks EXCEPT ![p] = Return(@, Null)]
    /\ UNCHANGED <<wire, entropy>>
    /\ BackendUnchanged

\* ------------------------------------------------------------ rate limiter

RECURSIVE SumRequestCount(_)
SumRequestCount(rows) ==
    IF rows = {} THEN 0
    ELSE LET r == CHOOSE x \in rows : TRUE
         IN r.request_count + SumRequestCount(rows \ {r})

\* window_start := date_trunc('minute', CURRENT_TIMESTAMP - p_window_minutes minutes)
WindowStartVar(ts, p_window_minutes) ==
    date_trunc_minute(ts - p_window_minutes * Minute)

\* SELECT COALESCE(SUM(request_count), 0) FROM rate_limits
\*  WHERE identifier_hash = p_identifier_hash AND action = p_action
\*    AND window_start >= window_start
\* Both sides of the last comparison are the same name. Where the statement
\* runs at all (see variable_conflict) the name is the row's column on both
\* sides, so the local variable window_start never takes part.
SelectCurrentCount(rows, p_identifier_hash, p_action, window_start) ==
    SumRequestCount({r \in rows :
        /\ r.identifier_hash = p_identifier_hash
        /\ r.action = p_action
        /\ r.window_start >= r.window_start})

\* No row written, no counter incremented.
UpsertRateLimit_Nothing(rows, p_identifier_hash, p_identifier_type, p_action, ts) ==
    rows

\* INSERT INTO rate_limits (...) VALUES (..., date_trunc('minute', CURRENT_TIMESTAMP), 1)
\* ON CONFLICT (identifier_hash, action, window_start)
\* DO UPDATE SET request_count = rate_limits.request_count + 1
UpsertRateLimit(rows, p_identifier_hash, p_identifier_type, p_action, ts) ==
    LET ws == date_trunc_minute(ts)
        hit == {r \in rows : /\ r.identifier_hash = p_identifier_hash
                             /\ r.action = p_action
                             /\ r.window_start = ws}
    IN IF hit # {}
       THEN (rows \ hit) \cup
            {[r EXCEPT !.request_count = r.request_count + 1] : r \in hit}
       ELSE rows \cup {[identifier_hash |-> p_identifier_hash,
                        identifier_type |-> p_identifier_type,
                        action |-> p_action,
                        window_start |-> ws,
                        request_count |-> 1,
                        expires_at |-> ts + RateLimitTTL]}

\* IF current_count >= p_max_requests THEN RETURN FALSE
RateLimitAllowed(current_count, p_max_requests) ==
    ~(current_count >= p_max_requests)

\* A rejected request recorded like an accepted one.
RowsAfterCheck_AlwaysRecords(rows, allowed, p_identifier_hash, p_identifier_type, p_action, ts) ==
    UpsertRateLimit(rows, p_identifier_hash, p_identifier_type, p_action, ts)

\* The rows after the IF: unchanged on RETURN FALSE, the upsert otherwise.
RowsAfterCheck(rows, allowed, p_identifier_hash, p_identifier_type, p_action, ts) ==
    IF allowed
    THEN UpsertRateLimit(rows, p_identifier_hash, p_identifier_type, p_action, ts)
    ELSE rows

LogEntry(h, t, a, m, w, ts, res) ==
    [identifier_hash |-> h, identifier_type |-> t, action |-> a,
     max_requests |-> m, window_minutes |-> w, at |-> ts, result |-> res]

Idle == [pc |-> "idle"]

\* What update_trust_score or a sweep handed back: its name, the device it
\* was called for (0: none) and the value returned. seq flips with every such
\* call, so that two equal answers in a row are told apart.
Result(op, d, value) ==
    [seq |-> 1 - result.seq, op |-> op, device |-> d, value |-> value]

\* The empty database of a fresh deployment.
InitServer ==
    /\ now = 0
    /\ advances = 0
    /\ variable_conflict \in {"error", "use_column"}
    /\ rate_limits = {}
    /\ calls = [p \in Procs |-> Idle]
    /\ rl_log = <<>>
    /\ devices = <<>>
    /\ vehicles = <<>>
    /\ alerts = <<>>
    /\ push_tokens = <<>>
    /\ abuse_metrics = {}
    /\ next_id = [device |-> 1, vehicle |-> 1, alert |-> 1, push_token |-> 1]
    /\ push_pending = {}
    /\ ops = 0
    /\ result = [seq |-> 0, op |-> "none", device |-> 0, value |-> Null]

\* The backend on its own: the app is installed and has called nothing.
InitTables ==
    /\ InitServer
    /\ storage = StorageEmpty
    /\ tasks = [p \in Procs |-> TaskIdle]
    /\ wire = << >>
    /\ entropy = 0

\* The app on a fresh install or on one that registered before.
InitApp ==
    /\ InitServer
    /\ limit = [max_requests |-> AlertsPerHour, window_minutes |-> AlertWindowMinutes]
    /\ storage \in {StorageEmpty, StorageRegistered}
    /\ tasks = [p \in Procs |-> TaskIdle]
    /\ wire = << >>
    /\ entropy = 0

\* Init for the rate limiter's callers, who pass one of the small limits.
Init ==
    /\ InitTables
    /\ limit \in [max_requests : MaxRequestsSet, window_minutes : WindowMinutesSet]

\* A connection calls check_rate_limit: the transaction starts (its
\* CURRENT_TIMESTAMP is fixed) and the SELECT runs on the committed rows.
\* With plpgsql.variable_conflict = error (PostgreSQL's default) the SELECT
\* raises "column reference window_start is ambiguous" and the call ends.
RLCall(p, h, t, a, m, w) ==
    /\ calls[p].pc = "idle"
    /\ Len(rl_log) + Cardinality({q \in Procs : calls[q].pc # "idle"}) < MaxCalls
    /\ IF variable_conflict = "error"
       THEN /\ rl_log' = Append(rl_log, LogEntry(h, t, a, m, w, now, "ERROR"))
            /\ UNCHANGED calls
       ELSE /\ calls' = [calls EXCEPT ![p] =
                   [pc |-> "selected", identifier_hash |-> h, identifier_type |-> t,
                    action |-> a, max_requests |-> m, window_minutes |-> w, ts |-> now,
                    current_count |->
                        SelectCurrentCount(rate_limits, h, a, WindowStartVar(now, w))]]
            /\ UNCHANGED rl_log
    /\ UNCHANGED <<clock, config, rate_limits, dbvars>>

\* The rest of the call: the IF, the upsert, RETURN and the commit.
RLFinish(p) ==
    /\ calls[p].pc = "selected"
    /\ LET c == calls[p]
           allowed == RateLimitAllowed(c.current_count, c.max_requests)
       IN /\ rate_limits' = RowsAfterCheck(rate_limits, allowed, c.identifier_hash,
                                           c.identifier_type, c.action, c.ts)
          /\ rl_log' = Append(rl_log,
                 LogEntry(c.identifier_hash, c.identifier_type, c.action,
                          c.max_requests, c.window_minutes, c.ts,
                          IF allowed THEN "TRUE" ELSE "FALSE"))
    /\ calls' = [calls EXCEPT ![p] = Idle]
    /\ UNCHANGED <<clock, config, dbvars>>

\* check_rate_limit run alone: no other statement between its SELECT and its upsert.
CheckRateLimit(h, t, a, m, w) ==
    /\ \A p \in Procs : calls[p].pc = "idle"
    /\ Len(rl_log) < MaxCalls
    /\ IF variable_conflict = "error"
       THEN /\ rl_log' = Append(rl_log, LogEntry(h, t, a, m, w, now, "ERROR"))
            /\ UNCHANGED rate_limits
       ELSE LET current_count ==
                    SelectCurrentCount(rate_limits, h, a, WindowStartVar(now, w))
                allowed == RateLimitAllowed(current_count, m)
            IN /\ rate_limits' = RowsAfterCheck(rate_limits, allowed, h, t, a, now)
               /\ rl_log' = Append(rl_log,
                      LogEntry(h, t, a, m, w, now, IF allowed THEN "TRUE" ELSE "FALSE"))
    /\ UNCHANGED <<clock, config, calls, dbvars>>

\* DELETE FROM rate_limits WHERE expires_at < CURRENT_TIMESTAMP
ExpiredRateLimits(rows, ts) == {r \in rows : r.expires_at < ts}

cleanup_expired_rate_limits ==
    /\ rate_limits' = rate_limits \ ExpiredRateLimits(rate_limits, now)
    /\ result' = Result("cleanup_expired_rate_limits", 0, Some(Cardinality(ExpiredRateLimits(rate_limits, now))))
    /\ UNCHANGED <<clock, config, rlvars, devices, vehicles, alerts, push_tokens,
                   abuse_metrics, next_id, push_pending, ops>>

\* The clock moves between transactions.
Advance(d) ==
    /\ advances < MaxAdvances
    /\ now' = now + d
    /\ advances' = advances + 1
    /\ UNCHANGED <<config, rate_limits, rlvars, dbvars>>


\* ------------------------------------------------------------------ tables

Restrict(f, S) == [x \in S |-> f[x]]

\* INSERT INTO devices (device_id_hash, ...): the column defaults
NewDevice(device_id_hash, ts) ==
    [device_id_hash |-> device_id_hash,
     is_banned |-> FALSE, ban_reason |-> Null, ban_expires_at |-> Null,
     trust_score |-> TrustDefault,
     last_seen_at |-> ts,
     delete_after |-> ts + DeviceRetention]

\* The UPDATE without the trigger: delete_after stays.
TouchDevice_LastSeenOnly(row, ts) == [row EXCEPT !.last_seen_at = ts]

\* UPDATE devices SET last_seen_at = ... with extend_device_retention_trigger:
\* BEFORE UPDATE ... WHEN (OLD.last_seen_at IS DISTINCT FROM NEW.last_seen_at)
TouchDevice(row, ts) ==
    IF row.last_seen_at # ts
    THEN [row EXCEPT !.last_seen_at = ts, !.delete_after = ts + DeviceRetention]
    ELSE row

\* INSERT INTO vehicles (device_id, vehicle_id_hash, qr_code_token)
NewVehicle(device_id, vehicle_id_hash, qr_code_token) ==
    [device_id |-> device_id, vehicle_id_hash |-> vehicle_id_hash,
     qr_code_token |-> qr_code_token, alert_count_received |-> 0]

\* INSERT INTO alerts (sender_device_id, vehicle_id, alert_type, latitude, longitude)
NewAlert(sender_device_id, vehicle_id, alert_type, latitude, longitude, ts) ==
    [sender_device_id |-> sender_device_id, vehicle_id |-> vehicle_id,
     alert_type |-> alert_type, status |-> "active",
     latitude |-> latitude, longitude |-> longitude,
     created_at |-> ts, expires_at |-> ts + AlertTTL,
     notification_sent_at |-> Null]

\* CHECK (latitude >= -90 AND latitude <= 90), CHECK (longitude >= -180 AND longitude <= 180)
CoordinatesOk(latitude, longitude) ==
    /\ latitude >= -90 /\ latitude <= 90
    /\ longitude >= -180 /\ longitude <= 180

\* The counter written from a value read before any alert was counted.
increment_vehicle_alert_count_Stale(vs, vehicle_id) ==
    [v \in DOMAIN vs |->
        IF v = vehicle_id THEN [vs[v] EXCEPT !.alert_count_received = 0 + 1] ELSE vs[v]]

\* increment_alert_count_trigger AFTER INSERT ON alerts:
\* UPDATE vehicles SET alert_count_received = alert_count_received + 1 WHERE id = NEW.vehicle_id
increment_vehicle_alert_count(vs, vehicle_id) ==
    [v \in DOMAIN vs |->
        IF v = vehicle_id
        THEN [vs[v] EXCEPT !.alert_count_received = vs[v].alert_count_received + 1]
        ELSE vs[v]]

\* INSERT INTO push_tokens (device_id, token, platform)
NewPushToken(device_id, token) ==
    [device_id |-> device_id, token |-> token, is_active |-> TRUE, failure_count |-> 0]

\* ON DELETE CASCADE, from a set of deleted devices:
\* vehicles.device_id, push_tokens.device_id, alerts.sender_device_id,
\* and alerts.vehicle_id through the vehicles that went
VehiclesOfDevices(vs, ds) == {v \in DOMAIN vs : vs[v].device_id \in ds}
VehiclesAfterDeviceDelete(vs, ds) == Restrict(vs, DOMAIN vs \ VehiclesOfDevices(vs, ds))
\* push_tokens.device_id without ON DELETE CASCADE.
PushTokensAfterDeviceDelete_Kept(ts, ds) == ts

PushTokensAfterDeviceDelete(ts, ds) ==
    Restrict(ts, {t \in DOMAIN ts : ts[t].device_id \notin ds})
\* alerts.vehicle_id REFERENCES vehicles(id) ON DELETE CASCADE
AlertsAfterVehicleDelete(als, gone) ==
    Restrict(als, {a \in DOMAIN als : als[a].vehicle_id \notin gone})
\* Only alerts.sender_device_id cascading, alerts.vehicle_id not.
AlertsAfterDeviceDelete_SenderOnly(als, vs, ds) ==
    Restrict(als, {a \in DOMAIN als : als[a].sender_device_id \notin ds})

AlertsAfterDeviceDelete(als, vs, ds) ==
    LET kept == AlertsAfterVehicleDelete(als, VehiclesOfDevices(vs, ds))
    IN Restrict(kept, {a \in DOMAIN kept : kept[a].sender_device_id \notin ds})

\* ON CONFLICT DO NOTHING: the bucket's row is written once and never counted up.
record_abuse_metric_DoNothing(rows, p_device_id_hash, p_metric_type, ts) ==
    IF \E r \in rows : /\ r.device_id_hash = p_device_id_hash
                        /\ r.metric_type = p_metric_type
                        /\ r.bucket_hour = date_trunc_hour(ts)
    THEN rows
    ELSE rows \cup {[device_id_hash |-> p_device_id_hash,
                     metric_type |-> p_metric_type,
                     bucket_hour |-> date_trunc_hour(ts),
                     count |-> 1,
                     expires_at |-> ts + AbuseMetricTTL]}

\* INSERT INTO abuse_metrics (device_id_hash, metric_type, bucket_hour, count)
\* VALUES (..., date_trunc('hour', CURRENT_TIMESTAMP), 1)
\* ON CONFLICT (device_id_hash, metric_type, bucket_hour)
\* DO UPDATE SET count = abuse_metrics.count + 1
record_abuse_metric(rows, p_device_id_hash, p_metric_type, ts) ==
    LET bucket == date_trunc_hour(ts)
        hit == {r \in rows : /\ r.device_id_hash = p_device_id_hash
                             /\ r.metric_type = p_metric_type
                             /\ r.bucket_hour = bucket}
    IN IF hit # {}
       THEN (rows \ hit) \cup {[r EXCEPT !.count = r.count + 1] : r \in hit}
       ELSE rows \cup {[device_id_hash |-> p_device_id_hash,
                        metric_type |-> p_metric_type,
                        bucket_hour |-> bucket,
                        count |-> 1,
                        expires_at |-> ts + AbuseMetricTTL]}

\* is_banned AND ban_expires_at > now
IsBanned(row, ts) ==
    /\ row.is_banned
    /\ \E t \in row.ban_expires_at : t > ts

\* LEAST alone: the score capped at 100 and not held at 0.
ClampTrust_NoFloor(score) ==
    IF score < TrustMax THEN score ELSE TrustMax

\* GREATEST(0, LEAST(100, trust_score + p_adjustment))
ClampTrust(score) ==
    LET least == IF score < TrustMax THEN score ELSE TrustMax
    IN IF least > TrustMin THEN least ELSE TrustMin

\* The ban decided on the score before the adjustment instead of new_score.
TrustUpdatedRow_OldScore(row, p_adjustment, ts) ==
    LET new_score == ClampTrust(row.trust_score + p_adjustment)
        scored == [row EXCEPT !.trust_score = new_score]
    IN IF row.trust_score < BanThreshold
       THEN [scored EXCEPT !.is_banned = TRUE,
                           !.ban_reason = Some("low_trust_score"),
                           !.ban_expires_at = Some(ts + BanDuration)]
       ELSE scored

\* update_trust_score: both UPDATEs on the row of p_device_id
TrustUpdatedRow(row, p_adjustment, ts) ==
    LET new_score == ClampTrust(row.trust_score + p_adjustment)
        scored == [row EXCEPT !.trust_score = new_score]
    IN IF new_score < BanThreshold
       THEN [scored EXCEPT !.is_banned = TRUE,
                           !.ban_reason = Some("low_trust_score"),
                           !.ban_expires_at = Some(ts + BanDuration)]
       ELSE scored

\* WHERE expires_at < CURRENT_TIMESTAMP AND status = 'active'
ExpiredAlerts_ActiveOnly(als, ts) ==
    {a \in DOMAIN als : als[a].expires_at < ts /\ als[a].status = "active"}

\* A DELETE that stops after its first row.
ExpiredAlerts_First(als, ts) ==
    {a \in DOMAIN als : /\ als[a].expires_at < ts
                        /\ \A b \in DOMAIN als : als[b].expires_at < ts => a <= b}

\* DELETE FROM alerts WHERE expires_at < CURRENT_TIMESTAMP
ExpiredAlerts(als, ts) == {a \in DOMAIN als : als[a].expires_at < ts}

\* WHERE delete_after <= CURRENT_TIMESTAMP
InactiveDevices_AtExpiry(ds, ts) == {d \in DOMAIN ds : ds[d].delete_after <= ts}

\* DELETE FROM devices WHERE delete_after < CURRENT_TIMESTAMP
InactiveDevices(ds, ts) == {d \in DOMAIN ds : ds[d].delete_after < ts}

\* DELETE FROM abuse_metrics WHERE expires_at < CURRENT_TIMESTAMP
ExpiredAbuseMetrics(rows, ts) == {r \in rows : r.expires_at < ts}

\* ---------------------------------------------------------------- handlers

RLUnchanged == UNCHANGED <<clock, config, rlvars>>

\* One more committed call.
Committed == ops < MaxOps /\ ops' = ops + 1

\* registerDevice(deviceIdHash): a known hash whose device is not banned is
\* refreshed; otherwise a row is inserted, which UNIQUE (device_id_hash) refuses
\* for a known hash.
DevicesWithHash(h) == {d \in DOMAIN devices : devices[d].device_id_hash = h}

RegisterDeviceOutcome(h) ==
    IF DevicesWithHash(h) # {} /\ \E d \in DevicesWithHash(h) : IsBanned(devices[d], now)
    THEN "ConflictError"
    ELSE "ok"

RegisterDevice(h) ==
    /\ IF RegisterDeviceOutcome(h) # "ok"
       THEN UNCHANGED <<devices, next_id, ops>>
       ELSE IF DevicesWithHash(h) # {}
       THEN /\ devices' = [d \in DOMAIN devices |->
                              IF d \in DevicesWithHash(h) THEN TouchDevice(devices[d], now)
                              ELSE devices[d]]
            /\ Committed
            /\ UNCHANGED next_id
       ELSE /\ next_id.device <= MaxDevices
            /\ devices' = devices @@ (next_id.device :> NewDevice(h, now))
            /\ next_id' = [next_id EXCEPT !.device = @ + 1]
            /\ Committed
    /\ UNCHANGED <<rate_limits, vehicles, alerts, push_tokens, abuse_metrics,
                   push_pending, result>>
    /\ RLUnchanged

\* No UNIQUE constraint on devices.device_id_hash.
DeviceUniqueViolation_None(ds, device_id_hash) == FALSE

\* device_id_hash VARCHAR(64) UNIQUE: the INSERT is refused when a row has
\* the hash.
DeviceUniqueViolation(ds, device_id_hash) ==
    \E d \in DOMAIN ds : ds[d].device_id_hash = device_id_hash

\* What registerDevice answered (ok with the deviceId, or an error), with the
\* hash it was called with and where it ended.
DeviceResult(h, outcome, deviceId, phase) ==
    [seq |-> 1 - result.seq, op |-> "registerDevice", device |-> deviceId,
     value |-> Some(outcome), hash |-> h, phase |-> phase]

\* registerDevice in two steps, for requests that overlap. First the lookup
\* of the hash on the committed rows: a known device that is not banned is
\* refreshed and the call ends.
RegisterDeviceLookup(p, h) ==
    /\ calls[p].pc = "idle"
    /\ LET pending == Cardinality({x \in Procs : calls[x].pc = "insert_device"})
       IN IF RegisterDeviceOutcome(h) # "ok"
          THEN /\ result' = DeviceResult(h, RegisterDeviceOutcome(h), 0, "lookup")
               /\ Committed
               /\ UNCHANGED <<devices, calls>>
          ELSE IF DevicesWithHash(h) # {}
          THEN /\ devices' = [d \in DOMAIN devices |->
                                 IF d \in DevicesWithHash(h)
                                 THEN TouchDevice(devices[d], now)
                                 ELSE devices[d]]
               /\ result' = DeviceResult(h, "ok", CHOOSE d \in DevicesWithHash(h) : TRUE,
                                         "lookup")
               /\ Committed
               /\ UNCHANGED calls
          ELSE /\ next_id.device + pending <= MaxDevices
               /\ calls' = [calls EXCEPT ![p] = [pc |-> "insert_device", hash |-> h]]
               /\ UNCHANGED <<devices, result, ops>>
    /\ UNCHANGED <<clock, config, rl_log, rate_limits, vehicles, alerts, push_tokens,
                   abuse_metrics, next_id, push_pending>>

\* Then the INSERT and the commit: UNIQUE (device_id_hash) refuses the row
\* when another request has committed the hash in between.
RegisterDeviceInsert(p) ==
    /\ calls[p].pc = "insert_device"
    /\ LET h == calls[p].hash
       IN IF DeviceUniqueViolation(devices, h)
          THEN /\ result' = DeviceResult(h, "ConflictError", 0, "insert")
               /\ UNCHANGED <<devices, next_id>>
          ELSE /\ result' = DeviceResult(h, "ok", next_id.device, "insert")
               /\ devices' = devices @@ (next_id.device :> NewDevice(h, now))
               /\ next_id' = [next_id EXCEPT !.device = @ + 1]
    /\ calls' = [calls EXCEPT ![p] = Idle]
    /\ Committed
    /\ UNCHANGED <<clock, config, rl_log, rate_limits, vehicles, alerts, push_tokens,
                   abuse_metrics, push_pending>>

\* vehicleIdHash: the one-way hash of the normalized plate under the vehicle
\* pepper, one value for each normalized plate.
hash_vehicle_id(normalized) == <<"VEHICLE_HASH_PEPPER", normalized>>

\* deviceIdHash: the one-way hash of the client's identifier under the device
\* pepper, which is not the vehicle pepper.
hash_device_id(device_id) == <<"DEVICE_HASH_PEPPER", device_id>>

\* registerVehicle that hashes the plate as it was typed.
RegisterVehicle_HashesRaw(d, plate) ==
    /\ d \in DOMAIN devices
    /\ result' = Result("registerVehicle", d, Some(IF PlateCheck[plate].isValid
                                                    THEN "ok" ELSE "ValidationError"))
    /\ IF ~PlateCheck[plate].isValid
       THEN UNCHANGED <<devices, vehicles, next_id>>
       ELSE /\ next_id.vehicle <= MaxVehicles
            /\ vehicles' = vehicles @@
                   (next_id.vehicle :> NewVehicle(d, hash_vehicle_id(plate), next_id.vehicle))
            /\ next_id' = [next_id EXCEPT !.vehicle = @ + 1]
            /\ devices' = [devices EXCEPT ![d] = TouchDevice(@, now)]
    /\ Committed
    /\ UNCHANGED <<rate_limits, alerts, push_tokens, abuse_metrics, push_pending>>
    /\ RLUnchanged

\* registerVehicle(deviceId, rawPlate): the ban gate, validation, the unique
\* vehicle_id_hash, then the insert with a fresh qr_code_token.
RegisterVehicleOutcome(d, plate) ==
    IF IsBanned(devices[d], now) THEN "AuthorizationError"
    ELSE IF ~PlateCheck[plate].isValid THEN "ValidationError"
    ELSE IF \E v \in DOMAIN vehicles :
               vehicles[v].vehicle_id_hash = hash_vehicle_id(PlateCheck[plate].normalized)
    THEN "ConflictError"
    ELSE "ok"

RegisterVehicle(d, plate) ==
    /\ d \in DOMAIN devices
    /\ result' = Result("registerVehicle", d, Some(RegisterVehicleOutcome(d, plate)))
    /\ IF RegisterVehicleOutcome(d, plate) # "ok"
       THEN UNCHANGED <<devices, vehicles, next_id>>
       ELSE /\ next_id.vehicle <= MaxVehicles
            /\ vehicles' = vehicles @@
                   (next_id.vehicle :>
                        NewVehicle(d, hash_vehicle_id(PlateCheck[plate].normalized),
                                   next_id.vehicle))
            /\ next_id' = [next_id EXCEPT !.vehicle = @ + 1]
            /\ devices' = [devices EXCEPT ![d] = TouchDevice(@, now)]
    /\ Committed
    /\ UNCHANGED <<rate_limits, alerts, push_tokens, abuse_metrics, push_pending>>
    /\ RLUnchanged

\* No UNIQUE constraint on vehicles.
VehicleUniqueViolation_None(vs, vehicle_id_hash, qr_code_token) == FALSE

\* vehicle_id_hash VARCHAR(64) UNIQUE, qr_code_token VARCHAR(64) UNIQUE: the
\* INSERT is refused when a row has one of the two values.
VehicleUniqueViolation(vs, vehicle_id_hash, qr_code_token) ==
    \E v \in DOMAIN vs : \/ vs[v].vehicle_id_hash = vehicle_id_hash
                         \/ vs[v].qr_code_token = qr_code_token

\* What registerVehicle answered, with the rawPlate it was called with and
\* where it ended.
VehicleResult(d, plate, outcome, phase) ==
    [seq |-> 1 - result.seq, op |-> "registerVehicle", device |-> d,
     value |-> Some(outcome), plate |-> plate, phase |-> phase]

\* registerVehicle in two steps, for requests that overlap. First the ban
\* gate, the validation and the lookup of the hash, on the committed rows.
RegisterVehicleCheck(p, d, plate) ==
    /\ calls[p].pc = "idle"
    /\ d \in DOMAIN devices
    /\ LET outcome == RegisterVehicleOutcome(d, plate)
           pending == Cardinality({x \in Procs : calls[x].pc = "insert"})
       IN IF outcome # "ok"
          THEN /\ result' = VehicleResult(d, plate, outcome, "check")
               /\ Committed
               /\ UNCHANGED calls
          ELSE /\ next_id.vehicle + pending <= MaxVehicles
               /\ calls' = [calls EXCEPT ![p] =
                      [pc |-> "insert", device |-> d, plate |-> plate]]
               /\ UNCHANGED <<result, ops>>
    /\ UNCHANGED <<clock, config, rl_log, rate_limits, devices, vehicles, alerts,
                   push_tokens, abuse_metrics, next_id, push_pending>>

\* Then the INSERT and the commit: the UNIQUE constraints refuse the row when
\* another request has committed the hash in between.
RegisterVehicleInsert(p) ==
    /\ calls[p].pc = "insert"
    /\ LET d == calls[p].device
           plate == calls[p].plate
           vehicle_id_hash == hash_vehicle_id(PlateCheck[plate].normalized)
       IN IF VehicleUniqueViolation(vehicles, vehicle_id_hash, next_id.vehicle)
          THEN /\ result' = VehicleResult(d, plate, "ConflictError", "insert")
               /\ UNCHANGED <<devices, vehicles, next_id>>
          ELSE /\ result' = VehicleResult(d, plate, "ok", "insert")
               /\ vehicles' = vehicles @@
                      (next_id.vehicle :> NewVehicle(d, vehicle_id_hash, next_id.vehicle))
               /\ next_id' = [next_id EXCEPT !.vehicle = @ + 1]
               /\ devices' = [devices EXCEPT ![d] = TouchDevice(@, now)]
    /\ calls' = [calls EXCEPT ![p] = Idle]
    /\ Committed
    /\ UNCHANGED <<clock, config, rl_log, rate_limits, alerts, push_tokens,
                   abuse_metrics, push_pending>>

\* POST /push/token: the device's delivery address
RegisterPushTokenOutcome(d, token) ==
    IF \E t \in DOMAIN push_tokens : push_tokens[t].token = token
    THEN "ConflictError"
    ELSE "ok"

RegisterPushToken(d, token) ==
    /\ d \in DOMAIN devices
    /\ IF RegisterPushTokenOutcome(d, token) # "ok"
       THEN UNCHANGED <<devices, push_tokens, next_id, ops>>
       ELSE /\ next_id.push_token <= MaxPushTokens
            /\ push_tokens' = push_tokens @@
                   (next_id.push_token :> NewPushToken(d, token))
            /\ next_id' = [next_id EXCEPT !.push_token = @ + 1]
            /\ devices' = [devices EXCEPT ![d] = TouchDevice(@, now)]
            /\ Committed
    /\ UNCHANGED <<rate_limits, vehicles, alerts, abuse_metrics, push_pending, result>>
    /\ RLUnchanged

\* createAlert(qrToken, alertType, lat, lon, senderDeviceId), steps 1 to 5:
\* what the caller gets. Step 4 is check_rate_limit for alert_create on the
\* sender's hash.
VehiclesWithToken(token) ==
    {v \in DOMAIN vehicles : vehicles[v].qr_code_token = token}

AlertRateAllowed(d) ==
    RateLimitAllowed(
        SelectCurrentCount(rate_limits, devices[d].device_id_hash, "alert_create",
                           WindowStartVar(now, limit.window_minutes)),
        limit.max_requests)

\* Steps 1 to 5 without step 3.
CreateAlertStep_NoBanGate(d, token, alert_type, latitude, longitude) ==
    IF VehiclesWithToken(token) = {} THEN 1
    ELSE IF alert_type \notin AlertTypeEnum THEN 2
    ELSE IF variable_conflict = "error" \/ ~AlertRateAllowed(d) THEN 4
    ELSE IF ~CoordinatesOk(latitude, longitude) THEN 5
    ELSE 6

\* The first of steps 1 to 5 that rejects the request, 6 when none does.
CreateAlertStep(d, token, alert_type, latitude, longitude) ==
    IF VehiclesWithToken(token) = {} THEN 1
    ELSE IF alert_type \notin AlertTypeEnum THEN 2
    ELSE IF IsBanned(devices[d], now) THEN 3
    ELSE IF variable_conflict = "error" \/ ~AlertRateAllowed(d) THEN 4
    ELSE IF ~CoordinatesOk(latitude, longitude) THEN 5
    ELSE 6

\* What the caller gets. At step 4 check_rate_limit either raises or answers.
CreateAlertOutcome(d, token, alert_type, latitude, longitude) ==
    LET step == CreateAlertStep(d, token, alert_type, latitude, longitude)
    IN CASE step = 1 -> "NotFoundError"
         [] step = 2 -> "ValidationError"
         [] step = 3 -> "AuthorizationError"
         [] step = 4 -> IF variable_conflict = "error" THEN "InternalError"
                        ELSE "RateLimitError"
         [] step = 5 -> "ValidationError"
         [] OTHER -> "ok"

\* createAlert, steps 1 to 8; step 9 (push delivery) follows the commit as
\* PushDeliver. A request that passed step 4 has its rate_limits row, also
\* when step 5 rejects it.
CreateAlertTx(d, token, alert_type, latitude, longitude) ==
    /\ d \in DOMAIN devices
    /\ LET hash == devices[d].device_id_hash
           step == CreateAlertStep(d, token, alert_type, latitude, longitude)
           outcome == CreateAlertOutcome(d, token, alert_type, latitude, longitude)
       IN /\ rate_limits' =
                 IF step > 4
                 THEN RowsAfterCheck(rate_limits, TRUE, hash, "device", "alert_create", now)
                 ELSE rate_limits
          /\ IF outcome # "ok"
             THEN UNCHANGED <<devices, vehicles, alerts, abuse_metrics, next_id,
                              push_pending>>
             ELSE LET v == CHOOSE x \in VehiclesWithToken(token) : TRUE
                  IN /\ next_id.alert <= MaxAlerts
                     /\ alerts' = alerts @@
                            (next_id.alert :> NewAlert(d, v, alert_type, latitude,
                                                       longitude, now))
                     /\ vehicles' = increment_vehicle_alert_count(vehicles, v)
                     /\ abuse_metrics' = record_abuse_metric(abuse_metrics, hash,
                                                             "alert_sent", now)
                     /\ devices' = [devices EXCEPT ![d] = TouchDevice(@, now)]
                     /\ next_id' = [next_id EXCEPT !.alert = @ + 1]
                     /\ push_pending' = push_pending \cup {next_id.alert}
    /\ Committed
    /\ UNCHANGED push_tokens
    /\ RLUnchanged

\* The field an error of createAlert names in its detail.
CreateAlertDetail(d, token, alert_type, latitude, longitude) ==
    LET step == CreateAlertStep(d, token, alert_type, latitude, longitude)
    IN CASE step = 1 -> "qrToken"
         [] step = 2 -> "alertType"
         [] step = 5 -> "lat,lon"
         [] OTHER -> ""

\* POST /alerts: the transaction and its answer, an error with its kind and
\* detail.
CreateAlert(d, token, alert_type, latitude, longitude) ==
    /\ CreateAlertTx(d, token, alert_type, latitude, longitude)
    /\ result' =
           [seq |-> 1 - result.seq, op |-> "createAlert", device |-> d,
            value |-> Some(CreateAlertOutcome(d, token, alert_type, latitude,
                                              longitude)),
            detail |-> CreateAlertDetail(d, token, alert_type, latitude, longitude)]

\* createAlert of the client (lib/api.ts): the alert type is normalized, the
\* payload is posted, and the caller gets the alert or an Error of the
\* server's detail. The answer is kept with the alertType the caller passed.
createAlert(d, vehicleQrToken, alertType, latitude, longitude) ==
    LET normalizedAlertType == normalizeAlertType(alertType)
        alert_type == AlertTypeOfBody(normalizedAlertType)
    IN /\ CreateAlertTx(d, vehicleQrToken, alert_type, latitude, longitude)
       /\ result' = Result("api.createAlert", d,
                           Some(<<alertType,
                                  CreateAlertOutcome(d, vehicleQrToken, alert_type,
                                                     latitude, longitude)>>))

\* Notify-during-commit: the send is made inside the transaction of the
\* alert, and a send that fails rolls the alert back.
PushDeliver_DuringCommit(a, ok) ==
    /\ a \in push_pending
    /\ push_pending' = push_pending \ {a}
    /\ Committed
    /\ alerts' = IF ok THEN alerts ELSE Restrict(alerts, DOMAIN alerts \ {a})
    /\ UNCHANGED <<rate_limits, devices, vehicles, push_tokens, abuse_metrics,
                   next_id, result>>
    /\ RLUnchanged

\* Step 9 of createAlert, after the commit: one send to every active push
\* token of the vehicle's owner; ok is what the transport answered.
PushDeliver(a, ok) ==
    /\ a \in push_pending
    /\ push_pending' = push_pending \ {a}
    /\ Committed
    /\ IF a \in DOMAIN alerts
       THEN LET owner == vehicles[alerts[a].vehicle_id].device_id
                sent == {t \in DOMAIN push_tokens :
                            push_tokens[t].device_id = owner /\ push_tokens[t].is_active}
            IN /\ push_tokens' =
                    [t \in DOMAIN push_tokens |->
                        IF t \notin sent THEN push_tokens[t]
                        ELSE IF ok THEN [push_tokens[t] EXCEPT !.failure_count = 0]
                        ELSE [push_tokens[t] EXCEPT
                                 !.failure_count = @ + 1,
                                 !.is_active = ~(push_tokens[t].failure_count + 1
                                                    > PushFailureLimit)]]
               /\ alerts' = IF ok /\ sent # {}
                            THEN [alerts EXCEPT ![a].notification_sent_at = Some(now)]
                            ELSE alerts
       ELSE UNCHANGED <<push_tokens, alerts>>
    /\ UNCHANGED <<rate_limits, devices, vehicles, abuse_metrics, next_id, result>>
    /\ RLUnchanged

\* The alert state machine: active -> acknowledged -> resolved,
\* active -> expired, active -> flagged.
AlertTransitions == {<<"active", "acknowledged">>, <<"acknowledged", "resolved">>,
                     <<"active", "expired">>, <<"active", "flagged">>}

TransitionAlert(a, to) ==
    /\ a \in DOMAIN alerts
    /\ <<alerts[a].status, to>> \in AlertTransitions
    /\ alerts' = [alerts EXCEPT ![a].status = to]
    /\ Committed
    /\ UNCHANGED <<rate_limits, devices, vehicles, push_tokens, abuse_metrics, next_id,
                   push_pending, result>>
    /\ RLUnchanged

\* update_trust_score(p_device_id, p_adjustment): the row lock of the first
\* UPDATE is held to the commit, so calls on one device run one after another.
\* RETURN new_score, which is NULL when no row has the id.
AdjustTrust(d, p_adjustment) ==
    /\ IF d \in DOMAIN devices
       THEN /\ devices' = [devices EXCEPT ![d] = TrustUpdatedRow(@, p_adjustment, now)]
            /\ result' = Result("adjustTrust", d,
                   Some(TrustUpdatedRow(devices[d], p_adjustment, now).trust_score))
       ELSE /\ result' = Result("adjustTrust", d, Null)
            /\ UNCHANGED devices
    /\ Committed
    /\ UNCHANGED <<rate_limits, vehicles, alerts, push_tokens, abuse_metrics, next_id,
                   push_pending>>
    /\ RLUnchanged

\* update_trust_score statement by statement, on connection p. The call is
\* one transaction: its CURRENT_TIMESTAMP is that of its start, and what its
\* UPDATEs write is in `devices` (the committed rows) only at its commit.
update_trust_score_begin(p, d, p_adjustment) ==
    /\ calls[p].pc = "idle"
    /\ d \in DOMAIN devices
    /\ calls' = [calls EXCEPT ![p] =
           [pc |-> "trust_begun", device |-> d, adjustment |-> p_adjustment, ts |-> now]]
    /\ UNCHANGED <<clock, config, rl_log, rate_limits, dbvars>>

\* the row of device d is locked by a transaction other than p's
RowLocked(p, d) ==
    \E q \in Procs \ {p} : calls[q].pc = "trust_scored" /\ calls[q].device = d

\* The first UPDATE, with the new score visible to the other connections
\* before the commit.
update_trust_score_first_Visible(p) ==
    /\ calls[p].pc = "trust_begun"
    /\ ~RowLocked(p, calls[p].device)
    /\ LET new_score ==
               ClampTrust(devices[calls[p].device].trust_score + calls[p].adjustment)
       IN /\ calls' = [calls EXCEPT ![p] = [@ EXCEPT !.pc = "trust_scored"] @@
                           [new_score |-> new_score]]
          /\ devices' = [devices EXCEPT ![calls[p].device].trust_score = new_score]
    /\ UNCHANGED <<clock, config, rl_log, rate_limits, vehicles, alerts, push_tokens,
                   abuse_metrics, next_id, push_pending, ops, result>>

\* UPDATE devices SET trust_score = GREATEST(0, LEAST(100, trust_score +
\* p_adjustment)) WHERE id = p_device_id RETURNING trust_score INTO new_score.
\* It waits while another transaction holds the row's lock, then works on
\* the row that transaction committed, and holds the lock to its own commit.
update_trust_score_first(p) ==
    /\ calls[p].pc = "trust_begun"
    /\ ~RowLocked(p, calls[p].device)
    /\ LET new_score ==
               ClampTrust(devices[calls[p].device].trust_score + calls[p].adjustment)
       IN calls' = [calls EXCEPT ![p] = [@ EXCEPT !.pc = "trust_scored"] @@
                       [new_score |-> new_score]]
    /\ UNCHANGED <<clock, config, rl_log, rate_limits, dbvars>>

\* IF new_score < 10 THEN UPDATE devices SET is_banned = TRUE, ...; RETURN
\* new_score; and the commit
update_trust_score_second(p) ==
    /\ calls[p].pc = "trust_scored"
    /\ LET c == calls[p]
           scored == [devices[c.device] EXCEPT !.trust_score = c.new_score]
       IN /\ devices' = [devices EXCEPT ![c.device] =
                 IF c.new_score < BanThreshold
                 THEN [scored EXCEPT !.is_banned = TRUE,
                                     !.ban_reason = Some("low_trust_score"),
                                     !.ban_expires_at = Some(c.ts + BanDuration)]
                 ELSE scored]
          /\ result' = Result("adjustTrust", c.device, Some(c.new_score))
    /\ calls' = [calls EXCEPT ![p] = Idle]
    /\ Committed
    /\ UNCHANGED <<clock, config, rl_log, rate_limits, vehicles, alerts, push_tokens,
                   abuse_metrics, next_id, push_pending>>

\* DELETE /auth/me: DELETE FROM devices WHERE id = d, with the cascades
DeleteDevice(d) ==
    /\ d \in DOMAIN devices
    /\ devices' = Restrict(devices, DOMAIN devices \ {d})
    /\ vehicles' = VehiclesAfterDeviceDelete(vehicles, {d})
    /\ push_tokens' = PushTokensAfterDeviceDelete(push_tokens, {d})
    /\ alerts' = AlertsAfterDeviceDelete(alerts, vehicles, {d})
    /\ Committed
    /\ UNCHANGED <<rate_limits, abuse_metrics, next_id, push_pending, result>>
    /\ RLUnchanged

\* DELETE /vehicles/{id}: a vehicle of the caller, with the cascade to its alerts
DeleteVehicle(d, v) ==
    /\ d \in DOMAIN devices
    /\ v \in DOMAIN vehicles
    /\ IF vehicles[v].device_id # d
       THEN UNCHANGED <<devices, vehicles, alerts, ops>>
       ELSE /\ vehicles' = Restrict(vehicles, DOMAIN vehicles \ {v})
            /\ alerts' = AlertsAfterVehicleDelete(alerts, {v})
            /\ devices' = [devices EXCEPT ![d] = TouchDevice(@, now)]
            /\ Committed
    /\ UNCHANGED <<rate_limits, push_tokens, abuse_metrics, next_id, push_pending,
                   result>>
    /\ RLUnchanged

\* ------------------------------------------------------------------ reaper

\* A sweep that takes the alerts it deletes off their vehicles' counters.
cleanup_expired_alerts_Decrements ==
    /\ alerts' = Restrict(alerts, DOMAIN alerts \ ExpiredAlerts(alerts, now))
    /\ vehicles' = [v \in DOMAIN vehicles |->
           [vehicles[v] EXCEPT !.alert_count_received =
               @ - Cardinality({a \in ExpiredAlerts(alerts, now) : alerts[a].vehicle_id = v})]]
    /\ result' = Result("cleanup_expired_alerts", 0,
                        Some(Cardinality(ExpiredAlerts(alerts, now))))
    /\ Committed
    /\ UNCHANGED <<rate_limits, devices, push_tokens, abuse_metrics, next_id,
                   push_pending>>
    /\ RLUnchanged

cleanup_expired_alerts ==
    /\ alerts' = Restrict(alerts, DOMAIN alerts \ ExpiredAlerts(alerts, now))
    /\ result' = Result("cleanup_expired_alerts", 0,
                        Some(Cardinality(ExpiredAlerts(alerts, now))))
    /\ Committed
    /\ UNCHANGED <<rate_limits, devices, vehicles, push_tokens, abuse_metrics, next_id,
                   push_pending>>
    /\ RLUnchanged

cleanup_inactive_devices ==
    LET gone == InactiveDevices(devices, now)
    IN /\ devices' = Restrict(devices, DOMAIN devices \ gone)
       /\ vehicles' = VehiclesAfterDeviceDelete(vehicles, gone)
       /\ push_tokens' = PushTokensAfterDeviceDelete(push_tokens, gone)
       /\ alerts' = AlertsAfterDeviceDelete(alerts, vehicles, gone)
       /\ result' = Result("cleanup_inactive_devices", 0, Some(Cardinality(gone)))
       /\ Committed
       /\ UNCHANGED <<rate_limits, abuse_metrics, next_id, push_pending>>
       /\ RLUnchanged

cleanup_expired_abuse_metrics ==
    /\ abuse_metrics' = abuse_metrics \ ExpiredAbuseMetrics(abuse_metrics, now)
    /\ result' = Result("cleanup_expired_abuse_metrics", 0,
                        Some(Cardinality(ExpiredAbuseMetrics(abuse_metrics, now))))
    /\ Committed
    /\ UNCHANGED <<rate_limits, devices, vehicles, alerts, push_tokens, next_id,
                   push_pending>>
    /\ RLUnchanged

\* run_all_cleanup: the four sweeps in one transaction, in this order
run_all_cleanup ==
    LET swept == Restrict(alerts, DOMAIN alerts \ ExpiredAlerts(alerts, now))
        gone == InactiveDevices(devices, now)
    IN /\ alerts' = AlertsAfterDeviceDelete(swept, vehicles, gone)
       /\ devices' = Restrict(devices, DOMAIN devices \ gone)
       /\ vehicles' = VehiclesAfterDeviceDelete(vehicles, gone)
       /\ push_tokens' = PushTokensAfterDeviceDelete(push_tokens, gone)
       /\ abuse_metrics' = abuse_metrics \ ExpiredAbuseMetrics(abuse_metrics, now)
       /\ rate_limits' = rate_limits \ ExpiredRateLimits(rate_limits, now)
       /\ result' = Result("run_all_cleanup", 0,
              Some(<<Cardinality(ExpiredAlerts(alerts, now)),
                     Cardinality(gone),
                     Cardinality(ExpiredAbuseMetrics(abuse_metrics, now)),
                     Cardinality(ExpiredRateLimits(rate_limits, now))>>))
       /\ Committed
       /\ UNCHANGED <<next_id, push_pending>>
       /\ RLUnchanged

\* run_all_cleanup in two steps, for runs that overlap each other and the
\* API traffic. The transaction starts: CURRENT_TIMESTAMP is fixed for all
\* four DELETEs.
RunAllCleanupBegin(p) ==
    /\ calls[p].pc = "idle"
    /\ calls' = [calls EXCEPT ![p] = [pc |-> "cleanup", ts |-> now]]
    /\ Committed
    /\ UNCHANGED <<clock, config, rl_log, rate_limits, devices, vehicles, alerts,
                   push_tokens, abuse_metrics, next_id, push_pending, result>>

\* The four DELETEs and the commit. Each DELETE works on the rows committed
\* when it runs and removes those that satisfy its WHERE then; a row that
\* another run has removed, or that a request has refreshed, is not one.
RunAllCleanupCommit(p) ==
    /\ calls[p].pc = "cleanup"
    /\ LET ts == calls[p].ts
           swept == Restrict(alerts, DOMAIN alerts \ ExpiredAlerts(alerts, ts))
           gone == InactiveDevices(devices, ts)
       IN /\ alerts' = AlertsAfterDeviceDelete(swept, vehicles, gone)
          /\ devices' = Restrict(devices, DOMAIN devices \ gone)
          /\ vehicles' = VehiclesAfterDeviceDelete(vehicles, gone)
          /\ push_tokens' = PushTokensAfterDeviceDelete(push_tokens, gone)
          /\ abuse_metrics' = abuse_metrics \ ExpiredAbuseMetrics(abuse_metrics, ts)
          /\ rate_limits' = rate_limits \ ExpiredRateLimits(rate_limits, ts)
          /\ result' =
                 [seq |-> 1 - result.seq, op |-> "run_all_cleanup", device |-> 0,
                  value |-> Some(<<Cardinality(ExpiredAlerts(alerts, ts)),
                                   Cardinality(gone),
                                   Cardinality(ExpiredAbuseMetrics(abuse_metrics, ts)),
                                   Cardinality(ExpiredRateLimits(rate_limits, ts))>>),
                  ts |-> ts]
    /\ calls' = [calls EXCEPT ![p] = Idle]
    /\ UNCHANGED <<clock, config, rl_log, next_id, push_pending, ops>>

\* record_abuse_metric(p_device_id_hash, p_metric_type) called on its own, in
\* two steps for calls that overlap. The transaction starts: CURRENT_TIMESTAMP
\* is fixed.
RecordMetricBegin(p, h, m) ==
    /\ calls[p].pc = "idle"
    /\ Len(rl_log) + Cardinality({q \in Procs : calls[q].pc # "idle"}) < MaxCalls
    /\ calls' = [calls EXCEPT ![p] =
           [pc |-> "metric", device_id_hash |-> h, metric_type |-> m, ts |-> now]]
    /\ UNCHANGED <<clock, config, rl_log, rate_limits, dbvars>>

\* The INSERT ... ON CONFLICT DO UPDATE, one statement that the unique index
\* on (device_id_hash, metric_type, bucket_hour) makes an insert or an
\* increment of the committed row, and the commit. The call is logged.
RecordMetricUpsert(p) ==
    /\ calls[p].pc = "metric"
    /\ abuse_metrics' = record_abuse_metric(abuse_metrics, calls[p].device_id_hash,
                                            calls[p].metric_type, calls[p].ts)
    /\ rl_log' = Append(rl_log, [device_id_hash |-> calls[p].device_id_hash,
                                 metric_type |-> calls[p].metric_type,
                                 at |-> calls[p].ts])
    /\ calls' = [calls EXCEPT ![p] = Idle]
    /\ UNCHANGED <<clock, config, rate_limits, devices, vehicles, alerts, push_tokens,
                   next_id, push_pending, ops, result>>

\* Init for the handlers: no rate-limiter caller varies the limit; the one
\* limit in use is createAlert's.
InitDB ==
    /\ InitTables
    /\ limit = [max_requests |-> AlertsPerHour, window_minutes |-> AlertWindowMinutes]

\* Trust, bans and the write gate.
NextTrust ==
    \/ \E h \in DeviceHashes : RegisterDevice(h)
    \/ \E d \in DeviceIds, plate \in PlateInputs : RegisterVehicle(d, plate)
    \/ \E d \in DeviceIds, token \in QrTokenInputs, ty \in AlertTypeInputs,
          c \in CoordinateInputs : CreateAlert(d, token, ty, c[1], c[2])
    \/ \E d \in DeviceIds, delta \in TrustDeltas : AdjustTrust(d, delta)
    \/ \E d \in TrustSteps : Advance(d)

SpecTrust == InitDB /\ [][NextTrust]_vars

\* Calls of update_trust_score on connections that overlap, all on one device.
NextTrustTx ==
    \/ RegisterDevice("h1")
    \/ \E p \in Procs, delta \in TrustDeltas : update_trust_score_begin(p, 1, delta)
    \/ \E p \in Procs : update_trust_score_first(p)
    \/ \E p \in Procs : update_trust_score_second(p)
    \/ \E d \in TrustSteps : Advance(d)

SpecTrustTx == InitDB /\ [][NextTrustTx]_vars

\* Alerts created, swept at their expiry and deleted with their sender.
NextCounts ==
    \/ \E h \in DeviceHashes : RegisterDevice(h)
    \/ \E d \in DeviceIds, plate \in {x \in PlateInputs : PlateCheck[x].isValid} :
          RegisterVehicle(d, plate)
    \/ \E d \in DeviceIds, token \in QrTokenInputs : CreateAlert(d, token, "lights_on", 51, 0)
    \/ cleanup_expired_alerts
    \/ \E d \in DeviceIds : DeleteDevice(d)
    \/ \E d \in ReaperSteps : Advance(d)

SpecCounts == InitDB /\ [][NextCounts]_vars

\* The rows' lifetime: inserts, status changes, the sweeps by expiry.
NextReaper ==
    \/ \E h \in DeviceHashes : RegisterDevice(h)
    \/ \E d \in DeviceIds, plate \in PlateInputs : RegisterVehicle(d, plate)
    \/ \E d \in DeviceIds, token \in QrTokenInputs, ty \in AlertTypeInputs,
          c \in CoordinateInputs : CreateAlert(d, token, ty, c[1], c[2])
    \/ \E a \in 1..MaxAlerts, to \in AlertStatusEnum : TransitionAlert(a, to)
    \/ cleanup_expired_alerts
    \/ cleanup_expired_abuse_metrics
    \/ cleanup_expired_rate_limits
    \/ run_all_cleanup
    \/ \E d \in ReaperSteps : Advance(d)

SpecReaper == InitDB /\ [][NextReaper]_vars

\* Deletes and their cascades: by the owner, and by the inactive-device sweep.
NextCascade ==
    \/ \E h \in DeviceHashes : RegisterDevice(h)
    \/ \E d \in DeviceIds, plate \in PlateInputs : RegisterVehicle(d, plate)
    \/ \E d \in DeviceIds, token \in PushTokenInputs : RegisterPushToken(d, token)
    \/ \E d \in DeviceIds, token \in QrTokenInputs, ty \in AlertTypeInputs,
          c \in CoordinateInputs : CreateAlert(d, token, ty, c[1], c[2])
    \/ \E d \in DeviceIds : DeleteDevice(d)
    \/ \E d \in DeviceIds, v \in 1..MaxVehicles : DeleteVehicle(d, v)
    \/ cleanup_inactive_devices
    \/ \E d \in CascadeSteps : Advance(d)

SpecCascade == InitDB /\ [][NextCascade]_vars

\* The client's createAlert in front of the backend.
NextClient ==
    \/ \E h \in DeviceHashes : RegisterDevice(h)
    \/ \E d \in DeviceIds, plate \in PlateInputs : RegisterVehicle(d, plate)
    \/ \E d \in DeviceIds, token \in QrTokenInputs, ty \in ClientAlertTypeInputs,
          c \in CoordinateInputs : createAlert(d, token, ty, c[1], c[2])
    \/ \E d \in ClientSteps : Advance(d)

SpecClient == InitDB /\ [][NextClient]_vars

\* Vehicle registrations that overlap, with the plate in several formattings.
NextRegistry ==
    \/ \E h \in DeviceHashes : RegisterDevice(h)
    \/ \E p \in Procs, d \in DeviceIds, plate \in PlateVariantInputs :
          RegisterVehicleCheck(p, d, plate)
    \/ \E p \in Procs : RegisterVehicleInsert(p)
    \/ \E d \in ClientSteps : Advance(d)

SpecRegistry == InitDB /\ [][NextRegistry]_vars

\* Device registrations that overlap, with trust adjustments and bans.
NextDevices ==
    \/ \E p \in Procs, h \in DeviceHashes : RegisterDeviceLookup(p, h)
    \/ \E p \in Procs : RegisterDeviceInsert(p)
    \/ \E d \in DeviceIds, delta \in TrustDeltas : AdjustTrust(d, delta)
    \/ \E d \in TrustSteps : Advance(d)

SpecDevices == InitDB /\ [][NextDevices]_vars

\* Runs of the reaper that overlap each other and the API traffic, which is
\* of requests that pass validation.
NextSweep ==
    \/ \E h \in DeviceHashes : RegisterDevice(h)
    \/ \E d \in DeviceIds, plate \in {x \in PlateInputs : PlateCheck[x].isValid} :
          RegisterVehicle(d, plate)
    \/ \E d \in DeviceIds, token \in 1..MaxVehicles : CreateAlert(d, token, "lights_on", 51, 0)
    \/ \E p \in Procs : RunAllCleanupBegin(p)
    \/ \E p \in Procs : RunAllCleanupCommit(p)
    \/ \E d \in CascadeSteps : Advance(d)

SpecSweep == InitDB /\ [][NextSweep]_vars

\* The four sweeps one by one, on what the API traffic has written.
NextReaperEach ==
    \/ \E h \in DeviceHashes : RegisterDevice(h)
    \/ \E d \in DeviceIds, plate \in {x \in PlateInputs : PlateCheck[x].isValid} :
          RegisterVehicle(d, plate)
    \/ \E d \in DeviceIds, token \in PushTokenInputs : RegisterPushToken(d, token)
    \/ \E d \in DeviceIds, token \in 1..MaxVehicles : CreateAlert(d, token, "lights_on", 51, 0)
    \/ cleanup_expired_alerts
    \/ cleanup_inactive_devices
    \/ cleanup_expired_abuse_metrics
    \/ cleanup_expired_rate_limits
    \/ \E d \in CascadeSteps : Advance(d)

SpecReaperEach == InitDB /\ [][NextReaperEach]_vars

\* Registrations from the client's identifier and the plate as typed.
NextPrivacy ==
    \/ \E id \in ClientDeviceIdInputs : RegisterDevice(hash_device_id(id))
    \/ \E d \in DeviceIds, plate \in PlateVariantInputs : RegisterVehicle(d, plate)
    \/ \E d \in ClientSteps : Advance(d)

SpecPrivacy == InitDB /\ [][NextPrivacy]_vars

\* A call of a function of the client that touches no table: the rows stay,
\* the answer is kept next to the input.
PureCall(op, input, output) ==
    /\ result' = Result(op, 0, Some(<<input, output>>))
    /\ UNCHANGED <<clock, config, rate_limits, rlvars, devices, vehicles, alerts,
                   push_tokens, abuse_metrics, next_id, push_pending, ops>>

\* normalizeAlertType on the spellings a caller may pass.
NextAlertType ==
    \E input \in AlertTypeEdgeInputs :
       PureCall("normalizeAlertType", input, normalizeAlertType(input))

SpecAlertType == InitDB /\ [][NextAlertType]_vars

\* The three functions of lib/licensePlate.ts on plates of every rule, plates
\* at the edges of the length check and plates as typed.
NextPlates ==
    \/ \E plate \in PlateEdgeInputs :
          PureCall("normalizeLicensePlate", plate, normalizeLicensePlate(plate))
    \/ \E plate \in PlateEdgeInputs :
          PureCall("detectPlateCountry", plate, detectPlateCountry(plate))
    \/ \E plate \in PlateEdgeInputs :
          PureCall("validateLicensePlate", plate, validateLicensePlate(plate))
    \/ \E plate \in PlateEdgeInputs :
          PureCall("isValidLicensePlate", plate, isValidLicensePlate(plate))
    \/ \E plate \in PlateEdgeInputs :
          PureCall("getLicensePlateError", plate, getLicensePlateError(plate))

SpecPlates == InitDB /\ [][NextPlates]_vars

\* The scanner screen: scanned, scannedToken and alertSelectorVisible, kept
\* in the answer of the handler that set them last.
ScannerIdle ==
    [scanned |-> FALSE, scannedToken |-> Null, alertSelectorVisible |-> FALSE,
     invalidQrAlert |-> FALSE, successModalVisible |-> FALSE,
     lastBroadcastType |-> Null, isSubmitting |-> FALSE, inFlight |-> << >>]

\* the handlers of the scan screen and the continuations of its awaits
ScreenOps ==
    {"handleBarCodeScanned", "handleModalClose", "handleAlertTypeSelect",
     "getCurrentPositionAsync", "createAlert", "catch", "handleSuccessClose"}

Scanner ==
    IF result.op \in ScreenOps
    THEN (CHOOSE x \in result.value : TRUE)[2]
    ELSE ScannerIdle

\* handleBarCodeScanned({data}): nothing while a scan is being handled; with
\* a token the alert selector opens, without one the "Invalid QR Code" alert
\* is shown.
handleBarCodeScanned(data) ==
    IF Scanner.scanned THEN UNCHANGED vars
    ELSE LET token == extractQrToken(data)
         IN PureCall("handleBarCodeScanned", data,
                     IF token # Null
                     THEN [Scanner EXCEPT !.scanned = TRUE, !.scannedToken = token,
                                          !.alertSelectorVisible = TRUE,
                                          !.invalidQrAlert = FALSE]
                     ELSE [Scanner EXCEPT !.invalidQrAlert = TRUE])

handleModalClose ==
    PureCall("handleModalClose", << >>,
             [Scanner EXCEPT !.scanned = FALSE, !.scannedToken = Null,
                             !.alertSelectorVisible = FALSE, !.invalidQrAlert = FALSE])

\* the submission that handleAlertTypeSelect has started: the token and the
\* type it was called with, and the await it stands at
Submission(token, type) == [token |-> token, type |-> type, stage |-> "locating"]

Without(seq, i) == [j \in 1..(Len(seq) - 1) |-> IF j < i THEN seq[j] ELSE seq[j + 1]]

\* handleAlertTypeSelect that starts a submission while one is under way
handleAlertTypeSelect_WhileSubmitting(type) ==
    IF Scanner.scannedToken = Null THEN UNCHANGED vars
    ELSE /\ Len(Scanner.inFlight) < MaxInFlight
         /\ PureCall("handleAlertTypeSelect", <<type>>,
                     [Scanner EXCEPT !.isSubmitting = TRUE,
                                     !.alertSelectorVisible = FALSE,
                                     !.inFlight = Append(@, Submission(Scanner.scannedToken, type))])

\* handleAlertTypeSelect(type) up to its first await: nothing without a
\* scanned token or while a submission is under way; otherwise isSubmitting
\* is set, the selector closes and the position is asked for
handleAlertTypeSelect(type) ==
    IF Scanner.scannedToken = Null \/ Scanner.isSubmitting THEN UNCHANGED vars
    ELSE /\ Len(Scanner.inFlight) < MaxInFlight
         /\ PureCall("handleAlertTypeSelect", <<type>>,
                     [Scanner EXCEPT !.isSubmitting = TRUE,
                                     !.alertSelectorVisible = FALSE,
                                     !.inFlight = Append(@, Submission(Scanner.scannedToken, type))])

\* catch and finally of handleAlertTypeSelect: the scan state is reset
handleAlertTypeSelect_catch(i) ==
    PureCall("catch", <<Scanner.inFlight[i]>>,
             [Scanner EXCEPT !.scanned = FALSE, !.scannedToken = Null,
                             !.isSubmitting = FALSE, !.inFlight = Without(@, i)])

\* await Location.getCurrentPositionAsync({}), then createAlert(scannedToken,
\* type, ...) is sent
getCurrentPositionAsync(i, ok) ==
    /\ i \in 1..Len(Scanner.inFlight)
    /\ Scanner.inFlight[i].stage = "locating"
    /\ IF ok
       THEN PureCall("getCurrentPositionAsync", <<Scanner.inFlight[i]>>,
                     [Scanner EXCEPT !.inFlight[i].stage = "posting"])
       ELSE handleAlertTypeSelect_catch(i)

\* await createAlert(...): the success modal opens, or catch; finally
\* isSubmitting is cleared
createAlert_settled(i, ok) ==
    /\ i \in 1..Len(Scanner.inFlight)
    /\ Scanner.inFlight[i].stage = "posting"
    /\ IF ok
       THEN PureCall("createAlert", <<Scanner.inFlight[i]>>,
                     [Scanner EXCEPT !.lastBroadcastType = Some(Scanner.inFlight[i].type),
                                     !.successModalVisible = TRUE,
                                     !.isSubmitting = FALSE,
                                     !.inFlight = Without(@, i)])
       ELSE handleAlertTypeSelect_catch(i)

\* setSuccessModalVisible(false); router.back()
handleSuccessClose ==
    /\ Scanner.successModalVisible
    /\ PureCall("handleSuccessClose", << >>, [Scanner EXCEPT !.successModalVisible = FALSE])

NextScanner ==
    \/ \E data \in QrPayloadInputs : handleBarCodeScanned(data)
    \/ handleModalClose

SpecScanner == InitDB /\ [][NextScanner]_vars

\* the alert types picked in the selector
SelectTypeInputs == {"lights_on", "general"}

\* <AlertTypeSelectorModal visible={alertSelectorVisible} onClose=...
\* onSelectType=... />: the selector's buttons are there while it is shown,
\* the type buttons still while it slides away after a first selection
onClose == Scanner.alertSelectorVisible /\ handleModalClose

onSelectType(type) ==
    /\ Scanner.alertSelectorVisible \/ Scanner.isSubmitting
    /\ handleAlertTypeSelect(type)

\* The scan screen with its selector.
NextSubmit ==
    \/ \E data \in QrPayloadInputs : handleBarCodeScanned(data)
    \/ onClose
    \/ \E type \in SelectTypeInputs : onSelectType(type)
    \/ \E i \in 1..MaxInFlight, ok \in BOOLEAN : getCurrentPositionAsync(i, ok)
    \/ \E i \in 1..MaxInFlight, ok \in BOOLEAN : createAlert_settled(i, ok)
    \/ handleSuccessClose

SpecSubmit == InitDB /\ [][NextSubmit]_vars

\* ensureAuthenticated and the functions it calls, from any await to the next
EnsureAuthenticatedSteps(p) ==
    \/ getJwtToken(p)
    \/ getOrCreateDeviceId_getItem(p)
    \/ getOrCreateDeviceId_getRandomBytes(p)
    \/ getOrCreateDeviceId_setItem(p)
    \/ \E ok \in BOOLEAN : registerDevice_fetch(p, ok)
    \/ registerDevice_setJwt(p)
    \/ registerDevice_setUuid(p)

AuthFetchSteps(p) ==
    \/ \E status \in Statuses : authFetch_fetch(p, status)
    \/ authFetch_removeItem(p)
    \/ \E status \in Statuses : authFetch_retry(p, status)

\* Calls of authFetch that overlap.
NextAuth ==
    \E p \in Procs :
       \/ StartCall(p, "authFetch")
       \/ EnsureAuthenticatedSteps(p)
       \/ AuthFetchSteps(p)

SpecAuth == InitApp /\ [][NextAuth]_vars

\* Calls of getOrCreateDeviceId and of ensureAuthenticated that overlap.
NextIdentity ==
    \E p \in Procs :
       \/ StartCall(p, "getOrCreateDeviceId")
       \/ StartCall(p, "ensureAuthenticated")
       \/ EnsureAuthenticatedSteps(p)

SpecIdentity == InitApp /\ [][NextIdentity]_vars

\* Calls of setupPushNotifications that overlap.
NextPushSetup ==
    \E p \in Procs :
       \/ StartCall(p, "setupPushNotifications")
       \/ \E granted \in BOOLEAN : isPushTokenRegistered(p, granted)
       \/ EnsureAuthenticatedSteps(p)
       \/ AuthFetchSteps(p)
       \/ setPushTokenRegistered(p)

SpecPushSetup == InitApp /\ [][NextPushSetup]_vars

\* Alerts and the push sends that follow them.
NextPush ==
    \/ \E h \in DeviceHashes : RegisterDevice(h)
    \/ \E d \in DeviceIds, plate \in {x \in PlateInputs : PlateCheck[x].isValid} :
          RegisterVehicle(d, plate)
    \/ \E d \in DeviceIds, token \in PushTokenInputs : RegisterPushToken(d, token)
    \/ \E d \in DeviceIds, token \in QrTokenInputs : CreateAlert(d, token, "lights_on", 51, 0)
    \/ \E a \in 1..MaxAlerts, ok \in BOOLEAN : PushDeliver(a, ok)
    \/ \E d \in ClientSteps : Advance(d)

SpecPush == InitDB /\ [][NextPush]_vars

\* Calls of record_abuse_metric that overlap, over several hours.
NextMetrics ==
    \/ \E p \in Procs, h \in DeviceHashes, m \in MetricTypeInputs :
          RecordMetricBegin(p, h, m)
    \/ \E p \in Procs : RecordMetricUpsert(p)
    \/ \E d \in MetricSteps : Advance(d)

SpecMetrics == InitDB /\ [][NextMetrics]_vars

NextRL ==
    \/ \E p \in Procs, r \in Requests :
          RLCall(p, r[1], r[2], r[3], limit.max_requests, limit.window_minutes)
    \/ \E p \in Procs : RLFinish(p)
    \/ \E d \in RaceSteps : Advance(d)

SpecRL == Init /\ [][NextRL]_vars

NextSeq ==
    \/ \E r \in Requests :
          CheckRateLimit(r[1], r[2], r[3], limit.max_requests, limit.window_minutes)
    \/ cleanup_expired_rate_limits
    \/ \E d \in RLSteps : Advance(d)

SpecSeq == Init /\ [][NextSeq]_vars

\* ------------------------------------------------- rate limiter: claims

LogIdx == 1..Len(rl_log)
SameIdentifier(e, f) ==
    /\ e.identifier_hash = f.identifier_hash
    /\ e.identifier_type = f.identifier_type
    /\ e.action = f.action
SameHashAction(e, f) ==
    /\ e.identifier_hash = f.identifier_hash
    /\ e.action = f.action
\* f was called within the trailing window_minutes of e's call
InTrailingWindow(f, e) ==
    /\ f.at <= e.at
    /\ f.at >= e.at - e.window_minutes * Minute

\* C1: under any interleaving of concurrent check_rate_limit calls for one
\* (identifier, action) with limit max_requests, the calls of one window that
\* returned TRUE are never more than max_requests.
C1_NeverMoreThanMaxRequests ==
    \A i \in LogIdx :
        rl_log[i].result = "TRUE" =>
            Cardinality({j \in LogIdx : /\ rl_log[j].result = "TRUE"
                                        /\ SameIdentifier(rl_log[j], rl_log[i])
                                        /\ InTrailingWindow(rl_log[j], rl_log[i])})
                <= rl_log[i].max_requests

\* C2: called one after the other inside one window with limit N, the first N
\* calls of an (identifier, action) return TRUE and every later call FALSE.
C2_FirstNTrueThenFalse ==
    \A i \in LogIdx :
        LET e == rl_log[i]
            earlier == {j \in 1..(i - 1) : SameIdentifier(rl_log[j], e)}
        IN (\A j \in earlier : InTrailingWindow(rl_log[j], e)) =>
               e.result = IF Cardinality(earlier) < e.max_requests THEN "TRUE" ELSE "FALSE"

\* C3: an identifier that was denied is allowed again once every request
\* recorded for its hash and action lies in a bucket older than the window,
\* whether or not the old rows were reaped.
C3_AllowedAgainAfterWindow ==
    \A i \in LogIdx :
        LET e == rl_log[i]
            earlier == {j \in 1..(i - 1) : SameHashAction(rl_log[j], e)}
        IN (/\ \E j \in earlier : rl_log[j].result = "FALSE"
            /\ \A j \in earlier : rl_log[j].result = "TRUE" =>
                   date_trunc_minute(rl_log[j].at) < WindowStartVar(e.at, e.window_minutes))
           => e.result = "TRUE"

\* C4: a check_rate_limit call that returns FALSE leaves every rate_limits
\* row as it was: no row is created and no request_count grows.
C4_RejectedNotRecorded ==
    [][(/\ Len(rl_log') = Len(rl_log) + 1
        /\ rl_log'[Len(rl_log')].result = "FALSE") => rate_limits' = rate_limits]_vars

\* a call returned FALSE while another connection's call was in flight
C4_Witness ==
    /\ rl_log # <<>>
    /\ rl_log[Len(rl_log)].result = "FALSE"
    /\ rate_limits # {}
    /\ \E p \in Procs : calls[p].pc = "selected"

\* C5: requests recorded as identifier_type device do not count toward the
\* limit of identifier_type ip with the same hash and action (and conversely):
\* a call is denied only when max_requests calls of its own type were allowed.
C5_TypesCountedApart ==
    \A i \in LogIdx :
        rl_log[i].result = "FALSE" =>
            Cardinality({j \in 1..(i - 1) : /\ rl_log[j].result = "TRUE"
                                            /\ SameIdentifier(rl_log[j], rl_log[i])})
                >= rl_log[i].max_requests

\* ------------------------------------------------- trust and bans: claims

\* the step is a call of op that returned
Returned(op) == result'.seq # result.seq /\ result'.op = op

\* C6: after every step, so after any sequence of update_trust_score calls
\* with adjustments of either sign, every device's trust_score is within
\* [0, 100]; and the value a call returns is the score then stored for its
\* device.
C6_TrustScoreClamped ==
    [][/\ \A d \in DOMAIN devices' :
              devices'[d].trust_score >= 0 /\ devices'[d].trust_score <= 100
       /\ (Returned("adjustTrust") /\ result'.device \in DOMAIN devices)
              => result'.value = Some(devices'[result'.device].trust_score)]_vars

\* an adjustment of a banned device (score 5 or 10 at best) returned 0: the
\* sum went below 0 and was clamped
C6_Witness ==
    /\ result.op = "adjustTrust"
    /\ result.value = Some(0)
    /\ result.device \in DOMAIN devices
    /\ devices[result.device].trust_score = 0
    /\ ops = 3

\* C7: when update_trust_score leaves a score below 10, on return the device
\* has is_banned = TRUE, ban_reason = low_trust_score and ban_expires_at = the
\* time of the adjustment + 7 days; when the score it leaves is 10 or more,
\* no device's ban columns change.
C7_BanBelowTen ==
    [][(Returned("adjustTrust") /\ result'.device \in DOMAIN devices) =>
          LET row == devices'[result'.device]
          IN IF row.trust_score < 10
             THEN /\ row.is_banned = TRUE
                  /\ row.ban_reason = Some("low_trust_score")
                  /\ row.ban_expires_at = Some(now + 7 * Day)
             ELSE \A e \in DOMAIN devices :
                      /\ devices'[e].is_banned = devices[e].is_banned
                      /\ devices'[e].ban_reason = devices[e].ban_reason
                      /\ devices'[e].ban_expires_at = devices[e].ban_expires_at]_vars

\* after the clock moved, an adjustment to 5 banned one device and an
\* adjustment to exactly 10 left the other one free
C7_Witness ==
    /\ now > 0
    /\ result.op = "adjustTrust"
    /\ \E d \in DOMAIN devices :
           /\ devices[d].trust_score = 5
           /\ devices[d].ban_expires_at = Some(now + 7 * Day)
    /\ \E d \in DOMAIN devices :
           devices[d].trust_score = 10 /\ ~devices[d].is_banned

\* is_banned = TRUE and ban_expires_at > now, on the row of device d
BannedNow(d) ==
    /\ devices[d].is_banned
    /\ \E t \in devices[d].ban_expires_at : t > now

\* the step is a createAlert or registerVehicle call of a device banned at the call
BannedWrite ==
    /\ Returned("createAlert") \/ Returned("registerVehicle")
    /\ result'.device \in DOMAIN devices
    /\ BannedNow(result'.device)

AlertSweep == Returned("cleanup_expired_alerts") \/ Returned("run_all_cleanup")

\* C9: an alert created at T has expires_at = T + 30 days, and a run of the
\* expired-alert sweep at any time t >= expires_at (t = expires_at included)
\* leaves no such alert, whatever its status.
C9_SweptFromExpiry ==
    [][/\ \A a \in DOMAIN alerts' \ DOMAIN alerts :
              /\ alerts'[a].created_at = now
              /\ alerts'[a].expires_at = now + 30 * Day
       /\ AlertSweep =>
              \A a \in DOMAIN alerts : alerts[a].expires_at <= now => a \notin DOMAIN alerts'
      ]_vars

\* ------------------------------------------------------ cascades: claims

\* C10: every vehicle's device exists, every push token's device exists, every
\* alert's sender device and target vehicle exist; so after a device is
\* deleted, by its owner or by the inactive-device sweep, none of its
\* vehicles, push tokens, sent alerts and alerts on its vehicles is left.
C10_ReferencesExist ==
    /\ \A v \in DOMAIN vehicles : vehicles[v].device_id \in DOMAIN devices
    /\ \A t \in DOMAIN push_tokens : push_tokens[t].device_id \in DOMAIN devices
    /\ \A a \in DOMAIN alerts :
           /\ alerts[a].sender_device_id \in DOMAIN devices
           /\ alerts[a].vehicle_id \in DOMAIN vehicles

\* of two devices one was deleted, and its vehicle and the alert on its
\* vehicle went with it
C10_Witness ==
    /\ next_id.device = 3 /\ Cardinality(DOMAIN devices) = 1
    /\ next_id.vehicle > 1 /\ vehicles = <<>>
    /\ next_id.alert > 1 /\ alerts = <<>>

\* ------------------------------------------------------- erasure: claims

\* the device_id_hash values of the devices that exist
LiveHashes == {devices[d].device_id_hash : d \in DOMAIN devices}

\* C11: once a device is deleted no row of any table refers to it: every
\* abuse_metrics row and every rate_limits row of identifier_type device
\* carries the device_id_hash of a device that exists.
C11_NoRowOfDeletedDevice ==
    /\ \A r \in abuse_metrics : r.device_id_hash \in LiveHashes
    /\ \A r \in rate_limits :
           r.identifier_type = "device" => r.identifier_hash \in LiveHashes

\* C12: a device delete is all or nothing. In a step that removes devices,
\* exactly the vehicles and push tokens of the removed devices, the alerts they
\* sent and the alerts on their vehicles go with them; in a step that removes
\* no device, no push token goes and an alert goes only with its vehicle.
C12_DeleteAllOrNothing ==
    [][LET gone == DOMAIN devices \ DOMAIN devices'
           owned == {v \in DOMAIN vehicles : vehicles[v].device_id \in gone}
       IN IF gone # {}
          THEN /\ DOMAIN vehicles' = DOMAIN vehicles \ owned
               /\ DOMAIN push_tokens' =
                      {t \in DOMAIN push_tokens : push_tokens[t].device_id \notin gone}
               /\ DOMAIN alerts' =
                      {a \in DOMAIN alerts : /\ alerts[a].sender_device_id \notin gone
                                             /\ alerts[a].vehicle_id \notin owned}
               /\ \A d \in DOMAIN devices' : devices'[d] = devices[d]
               /\ \A v \in DOMAIN vehicles' : vehicles'[v] = vehicles[v]
               /\ \A t \in DOMAIN push_tokens' : push_tokens'[t] = push_tokens[t]
               /\ \A a \in DOMAIN alerts' : alerts'[a] = alerts[a]
          ELSE /\ DOMAIN push_tokens \subseteq DOMAIN push_tokens'
               /\ \A a \in DOMAIN alerts \ DOMAIN alerts' :
                      alerts[a].vehicle_id \notin DOMAIN vehicles'
      ]_vars

\* a device that had a vehicle and a push token was deleted, and both went
C12_Witness ==
    /\ next_id.push_token > 1 /\ push_tokens = <<>>
    /\ next_id.vehicle > 1 /\ vehicles = <<>>
    /\ Cardinality(DOMAIN devices) < next_id.device - 1

\* C13: a createAlert with an alertType outside the closed set of eight
\* values fails (with ValidationError, when the QR token is of a vehicle and
\* the type is the first thing refused) and creates no alert row, and every
\* stored alert's alert_type is one of the eight values.
C13_UnknownAlertTypeRejected ==
    [][/\ \A a \in DOMAIN alerts' : alerts'[a].alert_type \in AlertTypeEnum
       /\ (Returned("api.createAlert") /\ \E x \in result'.value : x[1] \notin ALERT_TYPES)
              => /\ alerts' = alerts
                 /\ \E x \in result'.value : x[2] # "ok"
      ]_vars

\* the requests counted for the device in its alert_create windows
AlertBudgetUsed(rows, d) ==
    SumRequestCount({r \in rows : /\ r.identifier_hash = devices[d].device_id_hash
                                  /\ r.action = "alert_create"})

\* a createAlert answered NotFoundError or ValidationError
CreateAlertRefused ==
    /\ Returned("createAlert")
    /\ result'.value \in {Some("NotFoundError"), Some("ValidationError")}

AlertsOn(als, v) == {a \in DOMAIN als : als[a].vehicle_id = v}

PlateCharacters(plate) ==
    SelectSeq(toUpperCase(plate), LAMBDA c : c \in UpperChars \cup DigitChars)

\* the vehicles registered for the plate, in whatever formatting
RegisteredAs(vs, plate) ==
    {v \in DOMAIN vs : PlateCharacters(vs[v].vehicle_id_hash[2]) = PlateCharacters(plate)}

RowsOfHash(ds, h) == {d \in DOMAIN ds : ds[d].device_id_hash = h}

HashBanned(h) == \E d \in RowsOfHash(devices, h) : BannedNow(d)

NothingExpired(als, ds, ms, rls, ts) ==
    /\ \A a \in DOMAIN als : ~(als[a].expires_at < ts)
    /\ \A d \in DOMAIN ds : ~(ds[d].delete_after < ts)
    /\ \A r \in ms : ~(r.expires_at < ts)
    /\ \A r \in rls : ~(r.expires_at < ts)

\* C18: a run of the reaper leaves no row expired at its time, so that a
\* second run at that time finds nothing: a run that starts on such a state
\* changes no row and returns four zeros. Runs that overlap each other and the
\* API traffic remove only rows expired at the run's time, which is not after
\* now, and rows of devices removed with them; every other row stays as it is.
C18_ReaperIdempotent ==
    [][Returned("run_all_cleanup") =>
          LET ts == result'.ts
              gone == DOMAIN devices \ DOMAIN devices'
          IN /\ ts <= now
             /\ NothingExpired(alerts', devices', abuse_metrics', rate_limits', ts)
             /\ NothingExpired(alerts, devices, abuse_metrics, rate_limits, ts) =>
                    /\ result'.value = Some(<<0, 0, 0, 0>>)
                    /\ <<alerts', devices', vehicles', push_tokens', abuse_metrics',
                          rate_limits'>> =
                       <<alerts, devices, vehicles, push_tokens, abuse_metrics,
                         rate_limits>>
             /\ \A d \in gone : devices[d].delete_after < ts
             /\ \A d \in DOMAIN devices' : devices'[d] = devices[d]
             /\ \A a \in DOMAIN alerts \ DOMAIN alerts' :
                    \/ alerts[a].expires_at < ts
                    \/ alerts[a].sender_device_id \in gone
                    \/ vehicles[alerts[a].vehicle_id].device_id \in gone
             /\ \A a \in DOMAIN alerts' : alerts'[a] = alerts[a]
             /\ \A v \in DOMAIN vehicles \ DOMAIN vehicles' : vehicles[v].device_id \in gone
             /\ \A v \in DOMAIN vehicles' : vehicles'[v] = vehicles[v]
             /\ \A r \in abuse_metrics \ abuse_metrics' : r.expires_at < ts
             /\ \A r \in rate_limits \ rate_limits' : r.expires_at < ts
             /\ abuse_metrics' \subseteq abuse_metrics
             /\ rate_limits' \subseteq rate_limits
      ]_vars

\* two runs overlap: one has committed and removed an alert while the other,
\* started before, has its DELETEs still to come
C18_Witness ==
    /\ result.op = "run_all_cleanup"
    /\ \E x \in result.value : x[1] >= 1
    /\ \E p \in Procs : calls[p].pc = "cleanup" /\ calls[p].ts >= result.ts

\* one of the four sweeps returned
SweepReturned ==
    \/ Returned("cleanup_expired_alerts")
    \/ Returned("cleanup_inactive_devices")
    \/ Returned("cleanup_expired_abuse_metrics")
    \/ Returned("cleanup_expired_rate_limits")

\* The sweep that returned removed the rows of its own table whose expiry is
\* before now, with a device its vehicles, its push tokens, the alerts it sent
\* and the alerts on its vehicles, and nothing else; the rows that stay are
\* unchanged.
SweepRemovedExactly ==
    LET op == result'.op
        gone == IF op = "cleanup_inactive_devices"
                THEN {d \in DOMAIN devices : devices[d].delete_after < now} ELSE {}
        owned == {v \in DOMAIN vehicles : vehicles[v].device_id \in gone}
    IN /\ DOMAIN devices' = DOMAIN devices \ gone
       /\ DOMAIN vehicles' = DOMAIN vehicles \ owned
       /\ DOMAIN push_tokens' =
              {t \in DOMAIN push_tokens : push_tokens[t].device_id \notin gone}
       /\ DOMAIN alerts' =
              {a \in DOMAIN alerts :
                  /\ op = "cleanup_expired_alerts" => ~(alerts[a].expires_at < now)
                  /\ alerts[a].sender_device_id \notin gone
                  /\ alerts[a].vehicle_id \notin owned}
       /\ abuse_metrics' =
              {r \in abuse_metrics :
                  op = "cleanup_expired_abuse_metrics" => ~(r.expires_at < now)}
       /\ rate_limits' =
              {r \in rate_limits :
                  op = "cleanup_expired_rate_limits" => ~(r.expires_at < now)}
       /\ \A d \in DOMAIN devices' : devices'[d] = devices[d]
       /\ \A v \in DOMAIN vehicles' : vehicles'[v] = vehicles[v]
       /\ \A t \in DOMAIN push_tokens' : push_tokens'[t] = push_tokens[t]
       /\ \A a \in DOMAIN alerts' : alerts'[a] = alerts[a]

\* the rows the step removed from the sweep's own table, and from all tables
OwnRowsRemoved ==
    CASE result'.op = "cleanup_expired_alerts" ->
             Cardinality(DOMAIN alerts \ DOMAIN alerts')
      [] result'.op = "cleanup_inactive_devices" ->
             Cardinality(DOMAIN devices \ DOMAIN devices')
      [] result'.op = "cleanup_expired_abuse_metrics" ->
             Cardinality(abuse_metrics \ abuse_metrics')
      [] OTHER -> Cardinality(rate_limits \ rate_limits')

AllRowsRemoved ==
    Cardinality(DOMAIN alerts \ DOMAIN alerts')
      + Cardinality(DOMAIN devices \ DOMAIN devices')
      + Cardinality(DOMAIN vehicles \ DOMAIN vehicles')
      + Cardinality(DOMAIN push_tokens \ DOMAIN push_tokens')
      + Cardinality(abuse_metrics \ abuse_metrics')
      + Cardinality(rate_limits \ rate_limits')

\* C19 as stated: each sweep removes exactly the rows of its own table whose
\* expiry is before now and the rows that go with a removed device, leaves
\* every other row unchanged, and returns the number of rows it removed.
C19_ReturnsRowsRemoved ==
    [][SweepReturned =>
          (SweepRemovedExactly /\ result'.value = Some(AllRowsRemoved))]_vars

\* C19, amended: each sweep removes exactly the rows of its own table whose
\* expiry is before now and the rows that go with a removed device, leaves
\* every other row unchanged, and returns the number of rows it removed from
\* its own table: the rows that went with a device are not counted.
C19_ReturnsOwnRowsRemoved ==
    [][SweepReturned =>
          (SweepRemovedExactly /\ result'.value = Some(OwnRowsRemoved))]_vars

\* the device sweep removed one device and its vehicle with it, and returned 1
C19_Witness ==
    /\ result.op = "cleanup_inactive_devices"
    /\ result.value = Some(1)
    /\ next_id.vehicle > 1 /\ vehicles = <<>>
    /\ Cardinality(DOMAIN devices) = next_id.device - 2

\* the device was seen at ts and is kept for 90 days from then
SeenAt(row, ts) == row.last_seen_at = ts /\ row.delete_after = ts + DeviceRetention

CallsInBucket(h, m, bucket) ==
    {i \in 1..Len(rl_log) : /\ rl_log[i].device_id_hash = h
                            /\ rl_log[i].metric_type = m
                            /\ date_trunc_hour(rl_log[i].at) = bucket}

\* C21: there is at most one abuse_metrics row for a (device_id_hash,
\* metric_type, bucket_hour), its count is the number of calls made for the
\* device and metric in that hour, and every call made has its row.
C21_OneRowCountsCalls ==
    /\ \A r, q \in abuse_metrics :
           (/\ r.device_id_hash = q.device_id_hash
            /\ r.metric_type = q.metric_type
            /\ r.bucket_hour = q.bucket_hour) => r = q
    /\ \A r \in abuse_metrics :
           r.count = Cardinality(CallsInBucket(r.device_id_hash, r.metric_type,
                                               r.bucket_hour))
    /\ \A i \in 1..Len(rl_log) :
           \E r \in abuse_metrics : /\ r.device_id_hash = rl_log[i].device_id_hash
                                    /\ r.metric_type = rl_log[i].metric_type
                                    /\ r.bucket_hour = date_trunc_hour(rl_log[i].at)

\* two calls that overlapped were counted in one bucket, and a call of
\* another hour has its own row
C21_Witness ==
    /\ \E r \in abuse_metrics : r.count = 2
    /\ \E r, q \in abuse_metrics :
          /\ r.device_id_hash = q.device_id_hash /\ r.metric_type = q.metric_type
          /\ r.bucket_hour # q.bucket_hour

\* C22: every abuse_metrics row has expires_at equal to its bucket_hour plus
\* 7 days, when it is created and after every increment.
C22_ExpiresSevenDaysAfterBucket ==
    \A r \in abuse_metrics : r.expires_at = r.bucket_hour + AbuseMetricTTL

\* C23: the status of an alert changes only from active to acknowledged, from
\* acknowledged to resolved, from active to expired and from active to
\* flagged; an expired alert stays expired; and a sweep of the alerts removes
\* every alert whose expires_at is before now, whatever its status.
C23_StatusMachine ==
    [][/\ \A a \in DOMAIN alerts \cap DOMAIN alerts' :
              alerts'[a].status # alerts[a].status =>
                  \/ alerts[a].status = "active"
                        /\ alerts'[a].status \in {"acknowledged", "expired", "flagged"}
                  \/ alerts[a].status = "acknowledged" /\ alerts'[a].status = "resolved"
       /\ (Returned("cleanup_expired_alerts") \/ Returned("run_all_cleanup")) =>
              \A a \in DOMAIN alerts : alerts[a].expires_at < now => a \notin DOMAIN alerts'
      ]_vars

\* a flagged alert and its TTL has passed: the next sweep is to remove it
C23_Witness ==
    \E a \in DOMAIN alerts :
       alerts[a].status \in {"flagged", "acknowledged", "expired"} /\ alerts[a].expires_at < now

\* C24: a push send is scheduled only by the createAlert that committed the
\* alert and answered ok, and a push send, whatever the transport answers,
\* leaves the answer of createAlert, the set of alerts and the status of
\* each alert as they are: after a send that failed the alert is still there
\* with status active.
C24_PushAfterCommit ==
    [][/\ \A a \in push_pending' \ push_pending :
              /\ a \notin DOMAIN alerts
              /\ a \in DOMAIN alerts'
              /\ alerts'[a].status = "active"
              /\ Returned("createAlert")
              /\ result'.value = Some("ok")
       /\ push_pending' # push_pending /\ push_pending' \subseteq push_pending =>
              /\ result' = result
              /\ DOMAIN alerts' = DOMAIN alerts
              /\ \A a \in DOMAIN alerts : alerts'[a].status = alerts[a].status
              /\ \A a \in push_pending \ push_pending' :
                     a \in DOMAIN alerts' /\ alerts'[a].status = "active"
      ]_vars

\* the send of an alert failed at the owner's token; the alert is active and
\* createAlert has answered ok
C24_Witness ==
    /\ push_pending = {}
    /\ \E t \in DOMAIN push_tokens : push_tokens[t].failure_count > 0
    /\ \E a \in DOMAIN alerts :
           alerts[a].status = "active" /\ alerts[a].notification_sent_at = Null
    /\ result.op = "createAlert" /\ result.value = Some("ok")

C26_CanonicalOrRejected ==
    result.op = "normalizeAlertType" =>
        \A x \in result.value :
           LET lower == toLowerCase(trim(x[1]))
           IN IF lower \in ALERT_TYPES THEN x[2] = lower ELSE x[2] \notin ALERT_TYPES

\* the `example` of each rule of PLATE_RULES, in the order of the rules
RuleExample ==
    << <<"A", "B", "1", "2", "C", "D", "E">>,
       <<"A", "1", "2", "3", "B", "C", "D">>,
       <<"A", "B", "C", "1", "2", "3", "D">>,
       <<"1", "2", "D", "1", "2", "3", "4", "5">>,
       <<"A", "A", "1", "2", "B", "B">>,
       <<"1", "2", "A", "A", "3", "4">>,
       <<"1", "2", "3", "4", "A", "B", "C">>,
       <<"A", "A", "1", "2", "3", "A", "A">>,
       <<"B", "A", "B", "1", "2", "3", "4">>,
       <<"B", "1", "2", "3", "4">>,
       <<"A", "B", "1", "2", "3", "C", "D">>,
       <<"A", "B", "1", "2", "C", "D">>,
       <<"1", "2", "A", "B", "C", "3">>,
       <<"1", "A", "B", "C", "2", "3">>,
       <<"1", "A", "B", "C", "1", "2", "3">>,
       <<"A", "B", "C", "1", "2", "3">>,
       <<"Z", "H", "1", "2", "3", "4", "5", "6">>,
       <<"W", "1", "2", "3", "4", "5", "A">>,
       <<"A", "B", "C", "1", "2", "D">>,
       <<"A", "B", "1", "2", "3", "4", "5">>,
       <<"A", "B", "1", "2", "3", "4", "5">>,
       <<"W", "A", "1", "2", "3", "4", "5">> >>

\* export const TEST_PLATES = { GB: "AB12CDE", ... }
TEST_PLATES ==
    [ GB |-> <<"A", "B", "1", "2", "C", "D", "E">>,
      IE |-> <<"1", "2", "D", "1", "2", "3", "4", "5">>,
      PT |-> <<"1", "2", "A", "A", "3", "4">>,
      FR |-> <<"A", "A", "1", "2", "3", "A", "A">>,
      DE |-> <<"B", "A", "B", "1", "2", "3", "4">>,
      ES |-> <<"1", "2", "3", "4", "A", "B", "C">>,
      IT |-> <<"A", "B", "1", "2", "3", "C", "D">>,
      NL |-> <<"A", "B", "1", "2", "C", "D">>,
      BE |-> <<"1", "A", "B", "C", "1", "2", "3">>,
      CH |-> <<"Z", "H", "1", "2", "3", "4", "5", "6">>,
      AT |-> <<"W", "1", "2", "3", "4", "5", "A">>,
      SE |-> <<"A", "B", "C", "1", "2", "D">>,
      NO |-> <<"A", "B", "1", "2", "3", "4", "5">>,
      DK |-> <<"A", "B", "1", "2", "3", "4", "5">>,
      PL |-> <<"W", "A", "1", "2", "3", "4", "5">> ]

\* the rules whose pattern matches a normalized plate
MatchingRules(normalized) ==
    {r \in 1..Len(PLATE_RULES) : Test(PLATE_RULES[r].pattern, normalized)}

\* C27 (as stated): validateLicensePlate answers isValid = TRUE with a
\* matchedCountry for every input whose normalized form matches a rule, and
\* isValid = FALSE with matchedCountry null for every input whose normalized
\* form has fewer than 4 or more than 10 characters.
C27_ValidWheneverMatched ==
    result.op = "validateLicensePlate" =>
        \A x \in result.value :
           LET normalized == normalizeLicensePlate(x[1])
           IN /\ MatchingRules(normalized) # {} =>
                    x[2].isValid /\ x[2].matchedCountry # Null
              /\ (Len(normalized) < 4 \/ Len(normalized) > 10) =>
                    ~x[2].isValid /\ x[2].matchedCountry = Null

\* C27 (amended): for an input whose normalized form has 4 to 10 characters
\* and matches a rule, validateLicensePlate answers isValid = TRUE and the
\* country of the first rule that matches, a function of the normalized form
\* alone; for every other input, among them the plates a rule matches that
\* are shorter than 4 or longer than 10 characters, it answers isValid =
\* FALSE and matchedCountry null.
C27_ValidIfMatchedWithinLength ==
    result.op = "validateLicensePlate" =>
        \A x \in result.value :
           LET normalized == normalizeLicensePlate(x[1])
               hits == MatchingRules(normalized)
           IN /\ x[2].normalized = normalized
              /\ IF Len(normalized) >= 4 /\ Len(normalized) <= 10 /\ hits # {}
                 THEN /\ x[2].isValid
                      /\ \E r \in hits :
                            /\ \A q \in hits : r <= q
                            /\ x[2].matchedCountry = Some(PLATE_RULES[r].countryCode)
                 ELSE ~x[2].isValid /\ x[2].matchedCountry = Null

\* validateLicensePlate has refused a plate of fewer than 4 or more than 10
\* characters that a rule matches
C27_Witness ==
    /\ result.op = "validateLicensePlate"
    /\ \E x \in result.value :
          /\ MatchingRules(x[2].normalized) # {}
          /\ Len(x[2].normalized) > 10
          /\ ~x[2].isValid

\* C28: detectPlateCountry answers the country of the first rule, in the order
\* of the list, that matches the normalized plate (null when none does), and
\* it answers Germany only for a plate that no rule of another country
\* matches.
C28_GermanyTriedLast ==
    result.op = "detectPlateCountry" =>
        \A x \in result.value :
           LET hits == MatchingRules(normalizeLicensePlate(x[1]))
           IN /\ IF hits = {} THEN x[2] = Null
                 ELSE \E r \in hits : /\ \A q \in hits : r <= q
                                       /\ x[2] = Some(PLATE_RULES[r].countryCode)
              /\ x[2] = Some("DE") =>
                    \A r \in hits : PLATE_RULES[r].countryCode = "DE"

\* are a and b, from positions i and j on, the same characters up to the case
\* of the letters and to white space, dashes, dots and underscores?
RECURSIVE SameFrom(_, _, _, _)
SameFrom(a, i, b, j) ==
    IF i <= Len(a) /\ a[i] \in RemovedChars THEN SameFrom(a, i + 1, b, j)
    ELSE IF j <= Len(b) /\ b[j] \in RemovedChars THEN SameFrom(a, i, b, j + 1)
    ELSE IF i > Len(a) \/ j > Len(b) THEN i > Len(a) /\ j > Len(b)
    ELSE /\ toUpperCase(<<a[i]>>) = toUpperCase(<<b[j]>>)
         /\ SameFrom(a, i + 1, b, j + 1)

LastSlash(data) ==
    IF InSeq(data, "/")
    THEN CHOOSE i \in 1..Len(data) :
            data[i] = "/" /\ \A j \in (i + 1)..Len(data) : data[j] # "/"
    ELSE 0

LastSegment(data) == SubSeq(data, LastSlash(data) + 1, Len(data))

\* the last segment is not empty and follows "/vehicle/"
EndsInVehicleSegment(data) ==
    /\ LastSlash(data) >= Len(VehiclePath)
    /\ SubSeq(data, LastSlash(data) - Len(VehiclePath) + 1, LastSlash(data)) = VehiclePath
    /\ LastSegment(data) # << >>

RawToken(data) == Len(data) >= 20 /\ LastSlash(data) = 0

\* the scan just handled: its payload and the screen after it
Scan == CHOOSE x \in result.value : TRUE

\* C30 (as stated): a scan is accepted, and the alert selector opens with the
\* token, exactly when the payload ends in /vehicle/ and a last segment (the
\* token is that segment) or is a string of at least 20 characters without
\* "/" (the token is the string); every other payload gives no token and
\* opens nothing.
C30_AnySegmentAccepted ==
    result.op = "handleBarCodeScanned" =>
        /\ Scan[2].alertSelectorVisible =
               (EndsInVehicleSegment(Scan[1]) \/ RawToken(Scan[1]))
        /\ Scan[2].scannedToken =
               IF EndsInVehicleSegment(Scan[1]) THEN Some(LastSegment(Scan[1]))
               ELSE IF RawToken(Scan[1]) THEN Some(Scan[1])
               ELSE Null

\* C30 (amended): the same, with the last segment made of letters, digits,
\* "_" and "-" only; a payload whose segment after /vehicle/ has another
\* character gives no token.
C30_TokenSegmentAccepted ==
    result.op = "handleBarCodeScanned" =>
        LET url == /\ EndsInVehicleSegment(Scan[1])
                   /\ \A i \in 1..Len(LastSegment(Scan[1])) :
                          LastSegment(Scan[1])[i] \in TokenChars
        IN /\ Scan[2].alertSelectorVisible = (url \/ RawToken(Scan[1]))
           /\ Scan[2].scanned = Scan[2].alertSelectorVisible
           /\ Scan[2].invalidQrAlert = ~Scan[2].alertSelectorVisible
           /\ Scan[2].scannedToken =
                  IF url THEN Some(LastSegment(Scan[1]))
                  ELSE IF RawToken(Scan[1]) THEN Some(Scan[1])
                  ELSE Null

\* a payload that ends in /vehicle/ and a segment with a "." or a "?" has
\* been scanned and refused
C30_Witness ==
    /\ result.op = "handleBarCodeScanned"
    /\ EndsInVehicleSegment(Scan[1])
    /\ \E i \in 1..Len(LastSegment(Scan[1])) : LastSegment(Scan[1])[i] \notin TokenChars
    /\ Scan[2].invalidQrAlert
    /\ ~Scan[2].alertSelectorVisible

\* the tokens the backend has issued to a registration of a task other than p
IssuedToOthers(p) ==
    {TheValue(wire[i].issued) : i \in {j \in 1..Len(wire) :
                                        wire[j].issued # Null /\ wire[j].task # p}}

RegisteredIdentities ==
    {wire[i].device_id : i \in {j \in 1..Len(wire) : wire[j].path = "/auth/register"}}

PushTokensStored == {i \in 1..Len(wire) : wire[i].stored}

ScannerNext == (CHOOSE x \in result'.value : TRUE)[2]

\* C32: while `scanned` is set the scanned token is not replaced, and the
\* scan state is reset only by closing the selector or by a failed
\* submission, which resets both `scanned` and the token; at most one
\* submission is under way, also when a type is selected a second time before
\* the first has settled; a submission that succeeds leaves `scanned` set and
\* the token in place.
C32_OneSubmission ==
    /\ [](Len(Scanner.inFlight) <= 1)
    /\ [][/\ Scanner.scanned =>
                \/ ScannerNext.scanned /\ ScannerNext.scannedToken = Scanner.scannedToken
                \/ /\ result'.op \in {"handleModalClose", "catch"}
                   /\ ~ScannerNext.scanned
                   /\ ScannerNext.scannedToken = Null
          /\ result'.op = "catch" =>
                /\ ~ScannerNext.scanned
                /\ ScannerNext.scannedToken = Null
                /\ ~ScannerNext.isSubmitting
          /\ result'.op = "createAlert" =>
                /\ ScannerNext.scanned = Scanner.scanned
                /\ ScannerNext.scanned
                /\ ScannerNext.scannedToken = Scanner.scannedToken
                /\ ScannerNext.successModalVisible]_vars

\* a submission has succeeded: the success modal is shown, `scanned` is still
\* set and nothing is under way
C32_Witness ==
    /\ result.op = "createAlert"
    /\ Scanner.scanned
    /\ Scanner.successModalVisible
    /\ Scanner.inFlight = << >>

\* windows of at most 60 minutes
SweepWindowInputs == {1, 60}

\* what check_rate_limit called now would answer on the rows given
OutcomeOn(rows, h, a, m, w) ==
    IF variable_conflict = "error" THEN "ERROR"
    ELSE IF RateLimitAllowed(SelectCurrentCount(rows, h, a, WindowStartVar(now, w)), m)
    THEN "TRUE" ELSE "FALSE"

\* C35: a check_rate_limit with a window of at most 60 minutes answers the
\* same on the rows a sweep run now would leave as on the rows there are, and
\* every row that sweep would delete has a window_start before the start of
\* that check's window.
C35_SweepKeepsOutcome ==
    \A r \in Requests, m \in MaxRequestsSet, w \in SweepWindowInputs :
       /\ OutcomeOn(rate_limits \ ExpiredRateLimits(rate_limits, now), r[1], r[3], m, w)
              = OutcomeOn(rate_limits, r[1], r[3], m, w)
       /\ \A row \in ExpiredRateLimits(rate_limits, now) :
             row.window_start < WindowStartVar(now, w)

\* C36: every device whose trust_score is below 10 is banned with a
\* ban_expires_at, in every committed state, also while calls of
\* update_trust_score on that device stand between their two UPDATEs or wait
\* for the row.
C36_LowTrustBanned ==
    \A d \in DOMAIN devices :
       devices[d].trust_score < BanThreshold =>
           devices[d].is_banned /\ devices[d].ban_expires_at # Null

\* a device with a score below 10 is banned, while one call on it stands
\* between its two UPDATEs and another waits for the row
C36_Witness ==
    \E d \in DOMAIN devices :
       /\ devices[d].trust_score < BanThreshold
       /\ devices[d].is_banned
       /\ devices[d].ban_expires_at # Null
       /\ \E p, q \in Procs :
             /\ calls[p].pc = "trust_scored" /\ calls[p].device = d
             /\ calls[q].pc = "trust_begun" /\ calls[q].device = d

\* the alerts a step inserts for vehicle v
InsertedFor(v) == {a \in DOMAIN alerts' \ DOMAIN alerts : alerts'[a].vehicle_id = v}

\* C37: a vehicle's alert_count_received starts at 0, grows in every step by
\* the number of alerts the step inserts for the vehicle and changes in no
\* other way, whatever the step deletes; it is never below the number of
\* alerts stored for the vehicle.
C37_CountsEveryInsert ==
    /\ [](\A v \in DOMAIN vehicles :
             vehicles[v].alert_count_received >= Cardinality(AlertsOn(alerts, v)))
    /\ [][/\ \A v \in DOMAIN vehicles \cap DOMAIN vehicles' :
                /\ vehicles'[v].alert_count_received >= vehicles[v].alert_count_received
                /\ vehicles'[v].alert_count_received =
                       vehicles[v].alert_count_received + Cardinality(InsertedFor(v))
          /\ \A v \in DOMAIN vehicles' \ DOMAIN vehicles :
                vehicles'[v].alert_count_received = 0]_vars

\* a vehicle has received two alerts and the sweep has removed them
C37_Witness ==
    /\ result.op = "cleanup_expired_alerts"
    /\ \E v \in DOMAIN vehicles :
          /\ vehicles[v].alert_count_received = 2
          /\ AlertsOn(alerts, v) = {}

\* C38 (as stated): detectPlateCountry answers a country exactly for the
\* plates validateLicensePlate finds valid, and then the same country;
\* getLicensePlateError answers null exactly for the plates
\* isValidLicensePlate accepts.
C38_AgreeOnEveryInput ==
    /\ result.op = "detectPlateCountry" =>
          \A x \in result.value :
             /\ (x[2] # Null) <=> validateLicensePlate(x[1]).isValid
             /\ validateLicensePlate(x[1]).isValid =>
                    x[2] = validateLicensePlate(x[1]).matchedCountry
    /\ result.op = "getLicensePlateError" =>
          \A x \in result.value : (x[2] = Null) <=> isValidLicensePlate(x[1])

\* C38 (amended): the two agree on the plates whose normalized form has 4 to
\* 10 characters; on the others validateLicensePlate answers invalid whatever
\* detectPlateCountry answers; a plate found valid has the country
\* detectPlateCountry answers; getLicensePlateError answers null exactly for
\* the plates isValidLicensePlate accepts.
C38_AgreeWithinLength ==
    /\ result.op = "detectPlateCountry" =>
          \A x \in result.value :
             LET n == Len(normalizeLicensePlate(x[1]))
                 v == validateLicensePlate(x[1])
             IN /\ (n >= 4 /\ n <= 10) => ((x[2] # Null) <=> v.isValid)
                /\ (n < 4 \/ n > 10) => ~v.isValid /\ v.matchedCountry = Null
                /\ v.isValid => x[2] = v.matchedCountry
    /\ result.op = "getLicensePlateError" =>
          \A x \in result.value : (x[2] = Null) <=> isValidLicensePlate(x[1])
    /\ result.op = "isValidLicensePlate" =>
          \A x \in result.value : x[2] = (getLicensePlateError(x[1]) = Null)

\* detectPlateCountry has answered a country for a plate that
\* validateLicensePlate finds invalid
C38_Witness ==
    /\ result.op = "detectPlateCountry"
    /\ \A x \in result.value :
          /\ x[2] # Null
          /\ ~validateLicensePlate(x[1]).isValid
          /\ getLicensePlateError(x[1]) # Null

\* C39: validateLicensePlate attributes the example of every rule to the
\* country of that rule, and every entry of TEST_PLATES to the country it is
\* listed under.
C39_ExamplesAttributed ==
    result.op = "validateLicensePlate" =>
        \A x \in result.value :
           /\ \A r \in 1..Len(PLATE_RULES) :
                 x[1] = RuleExample[r] =>
                     x[2].matchedCountry = Some(PLATE_RULES[r].countryCode)
           /\ \A c \in DOMAIN TEST_PLATES :
                 x[1] = TEST_PLATES[c] => x[2].matchedCountry = Some(c)

====
